---- MODULE Spec2Model ----
(***************************************************************************)
(* Nested manuscript editor (part -> scene -> paragraph) built on the      *)
(* Slate editing substrate: the structural normaliser (withFixNesting),    *)
(* the identity enforcer (withIDs), the fold guard (withProtectFolds) and  *)
(* the edit/document bridge (section2edit / updateSection).                *)
(*                                                                         *)
(* Conventions.  Paths are sequences of child indices counted from 1, so   *)
(* the source's path [0,0] is <<1,1>> here and "index 0" is index 1.       *)
(* A node is a record with the fields type, id, name, folded, text and     *)
(* children; a field the JavaScript object does not carry holds Undefined  *)
(* (id: 0).  A text leaf is a node whose text is a string.                 *)
(***************************************************************************)
EXTENDS Integers, Sequences, FiniteSets, TLC

VARIABLES
  tree,     \* the editor: the root node of the editable tree
  dirty,    \* DIRTY_PATHS: the paths the normaliser still has to visit
  mode,     \* "idle" (between operations) or "normalizing" (in Editor.normalize)
  m,        \* iterations done by the running Editor.normalize
  max,      \* iteration cap of the running Editor.normalize
  err,      \* "" or the exception a call has thrown
  edits,    \* operations applied since the last fixed point
  round,    \* normalisations that ran to completion
  stored,   \* the persisted section the editor is opened on
  opened,   \* the buffer: the editable parts made of the section, as edited
  saved,    \* the section as last saved
  io,       \* "closed", "open" (buffer made) or "saved" (updateSection ran)
  sel,      \* editor.selection: the caret, or NoSelection
  last      \* the last keystroke: the tree and the caret it found, the tree
            \* it handed to the primitive it wraps, whether that one ran

vars ==
  <<tree, dirty, mode, m, max, err, edits, round, stored, opened, saved, io,
    sel, last>>

editorVars == <<tree, dirty, mode, m, max, err, round>>

bridgeVars == <<stored, opened, saved, io>>

keyVars == <<sel, last>>

Undefined == "undefined"

\* ------------------------------------------------------------------------
\* Nodes
\* ------------------------------------------------------------------------

TextNode(t) ==
  [type |-> Undefined, id |-> 0, name |-> Undefined, folded |-> Undefined,
   text |-> t, children |-> <<>>]

Elem(type, id, name, folded, children) ==
  [type |-> type, id |-> id, name |-> name, folded |-> folded,
   text |-> Undefined, children |-> children]

\* The editor object itself: the root of the tree, path <<>>.
EditorNode(children) == Elem(Undefined, 0, Undefined, Undefined, children)

IsText(n) == n.text # Undefined

IsElement(n) == ~IsText(n)

\* ------------------------------------------------------------------------
\* Paths (Slate's Path interface)
\* ------------------------------------------------------------------------

NullPath == <<0>>

Last(p) == p[Len(p)]

PathParent(p) == SubSeq(p, 1, Len(p) - 1)

PathNext(p) == [p EXCEPT ![Len(p)] = @ + 1]

PathPrevious(p) == [p EXCEPT ![Len(p)] = @ - 1]

PathLevels(p) == [i \in 1..(Len(p) + 1) |-> SubSeq(p, 1, i - 1)]

PathAncestors(p) == [i \in 1..Len(p) |-> SubSeq(p, 1, i - 1)]

IsAncestor(a, p) == Len(a) < Len(p) /\ SubSeq(p, 1, Len(a)) = a

IsSibling(a, p) ==
  /\ Len(a) = Len(p)
  /\ Len(a) >= 1
  /\ PathParent(a) = PathParent(p)
  /\ a # p

EndsBefore(a, p) ==
  /\ Len(a) >= 1
  /\ Len(p) >= Len(a)
  /\ SubSeq(a, 1, Len(a) - 1) = SubSeq(p, 1, Len(a) - 1)
  /\ a[Len(a)] < p[Len(a)]

EndsBeforeOrEquals(a, p) ==
  /\ Len(a) >= 1
  /\ Len(p) >= Len(a)
  /\ SubSeq(a, 1, Len(a) - 1) = SubSeq(p, 1, Len(a) - 1)
  /\ a[Len(a)] <= p[Len(a)]

\* ------------------------------------------------------------------------
\* Tree access (Slate's Node interface)
\* ------------------------------------------------------------------------

RECURSIVE NodeHas(_, _)
NodeHas(n, p) ==
  IF p = <<>> THEN TRUE
  ELSE /\ Head(p) \in 1..Len(n.children)
       /\ NodeHas(n.children[Head(p)], Tail(p))

RECURSIVE NodeGet(_, _)
NodeGet(n, p) ==
  IF p = <<>> THEN n ELSE NodeGet(n.children[Head(p)], Tail(p))

RECURSIVE ReplaceAt(_, _, _)
ReplaceAt(n, p, new) ==
  IF p = <<>> THEN new
  ELSE [n EXCEPT !.children[Head(p)] = ReplaceAt(@, Tail(p), new)]

SetChildren(root, p, kids) ==
  ReplaceAt(root, p, [NodeGet(root, p) EXCEPT !.children = kids])

SpliceIn(kids, i, n) ==
  SubSeq(kids, 1, i - 1) \o <<n>> \o SubSeq(kids, i, Len(kids))

SpliceOut(kids, i) ==
  SubSeq(kids, 1, i - 1) \o SubSeq(kids, i + 1, Len(kids))

\* Node.string: the concatenated text of the leaves below a node.
RECURSIVE NodeString(_)
RECURSIVE StringOfAll(_)
StringOfAll(kids) ==
  IF kids = <<>> THEN "" ELSE NodeString(Head(kids)) \o StringOfAll(Tail(kids))

NodeString(n) == IF IsText(n) THEN n.text ELSE StringOfAll(n.children)

\* Node.first / Node.last: the path of the first (last) leaf below p.
RECURSIVE NodeFirst(_, _)
NodeFirst(root, p) ==
  LET n == NodeGet(root, p) IN
  IF IsText(n) \/ n.children = <<>> THEN p ELSE NodeFirst(root, p \o <<1>>)

RECURSIVE NodeLast(_, _)
NodeLast(root, p) ==
  LET n == NodeGet(root, p) IN
  IF IsText(n) \/ n.children = <<>> THEN p
  ELSE NodeLast(root, p \o <<Len(n.children)>>)

\* Editor.point(path, edge) throws unless the edge leaf is a text.
HasStartPoint(root, p) == IsText(NodeGet(root, NodeFirst(root, p)))

HasEndPoint(root, p) == IsText(NodeGet(root, NodeLast(root, p)))

\* All paths below (and including) a node, in document order, relative to it.
RECURSIVE NodePaths(_)
RECURSIVE KidsPaths(_, _)
KidsPaths(kids, i) ==
  IF i > Len(kids) THEN <<>>
  ELSE [j \in 1..Len(NodePaths(kids[i])) |-> <<i>> \o NodePaths(kids[i])[j]]
       \o KidsPaths(kids, i + 1)

NodePaths(n) == <<(<<>>)>> \o (IF IsText(n) THEN <<>> ELSE KidsPaths(n.children, 1))

\* Does a node hold a text leaf anywhere below it?
RECURSIVE HasTextLeaf(_)
HasTextLeaf(n) ==
  IF IsText(n) THEN TRUE
  ELSE \E i \in 1..Len(n.children) : HasTextLeaf(n.children[i])

\* ------------------------------------------------------------------------
\* Low-level operations of the editing substrate (editor.apply).  An
\* operation changes the tree and the list of dirty paths that the
\* normaliser still has to visit.
\* ------------------------------------------------------------------------

Op(type, path) ==
  [type |-> type, path |-> path, newPath |-> <<>>, position |-> 0,
   node |-> TextNode(""), field |-> "type", value |-> Undefined]

OpInsertNode(path, node) == [Op("insert_node", path) EXCEPT !.node = node]

OpRemoveNode(path) == Op("remove_node", path)

OpMoveNode(path, newPath) == [Op("move_node", path) EXCEPT !.newPath = newPath]

OpMergeNode(path, position) == [Op("merge_node", path) EXCEPT !.position = position]

OpSplitNode(path, position) == [Op("split_node", path) EXCEPT !.position = position]

OpSetNode(path, field, value) ==
  [Op("set_node", path) EXCEPT !.field = field, !.value = value]

\* position holds the offset of a text operation, value its text
OpInsertText(path, offset, text) ==
  [Op("insert_text", path) EXCEPT !.position = offset, !.value = text]

OpRemoveText(path, offset, text) ==
  [Op("remove_text", path) EXCEPT !.position = offset, !.value = text]

\* Path.transform for a move_node operation.
TransformMove(p, op, onp) ==
  IF op = onp THEN p
  ELSE IF IsAncestor(op, p) \/ op = p THEN
    LET copy == IF EndsBefore(op, onp) /\ Len(op) < Len(onp)
                THEN [onp EXCEPT ![Len(op)] = @ - 1] ELSE onp
    IN copy \o SubSeq(p, Len(op) + 1, Len(p))
  ELSE IF IsSibling(op, onp) /\ (IsAncestor(onp, p) \/ onp = p) THEN
    IF EndsBefore(op, p) THEN [p EXCEPT ![Len(op)] = @ - 1]
    ELSE [p EXCEPT ![Len(op)] = @ + 1]
  ELSE IF EndsBefore(onp, p) \/ onp = p \/ IsAncestor(onp, p) THEN
    LET q == IF EndsBefore(op, p) THEN [p EXCEPT ![Len(op)] = @ - 1] ELSE p
    IN [q EXCEPT ![Len(onp)] = @ + 1]
  ELSE IF EndsBefore(op, p) THEN
    LET q == IF onp = p THEN [p EXCEPT ![Len(onp)] = @ + 1] ELSE p
    IN [q EXCEPT ![Len(op)] = @ - 1]
  ELSE p

\* Path.transform(p, o): where the node at p is after operation o
\* (NullPath when it is gone).
TransformPath(p, o) ==
  IF p = <<>> THEN p
  ELSE CASE o.type = "insert_node" ->
         IF o.path = p \/ EndsBefore(o.path, p) \/ IsAncestor(o.path, p)
         THEN [p EXCEPT ![Len(o.path)] = @ + 1] ELSE p
    [] o.type = "remove_node" ->
         IF o.path = p \/ IsAncestor(o.path, p) THEN NullPath
         ELSE IF EndsBefore(o.path, p) THEN [p EXCEPT ![Len(o.path)] = @ - 1]
         ELSE p
    [] o.type = "merge_node" ->
         IF o.path = p \/ EndsBefore(o.path, p)
         THEN [p EXCEPT ![Len(o.path)] = @ - 1]
         ELSE IF IsAncestor(o.path, p)
         THEN [p EXCEPT ![Len(o.path)] = @ - 1,
                        ![Len(o.path) + 1] = @ + o.position]
         ELSE p
    [] o.type = "split_node" ->
         IF o.path = p THEN [p EXCEPT ![Len(p)] = @ + 1]
         ELSE IF EndsBefore(o.path, p) THEN [p EXCEPT ![Len(o.path)] = @ + 1]
         ELSE IF IsAncestor(o.path, p) /\ p[Len(o.path) + 1] > o.position
         THEN [p EXCEPT ![Len(o.path)] = @ + 1,
                        ![Len(o.path) + 1] = @ - o.position]
         ELSE p
    [] o.type = "move_node" -> TransformMove(p, o.path, o.newPath)
    [] OTHER -> p

\* Path.compare(a, b): -1, 0 or 1
PathCompare(a, b) ==
  LET n    == IF Len(a) < Len(b) THEN Len(a) ELSE Len(b)
      diff == {i \in 1..n : a[i] # b[i]}
  IN IF diff = {} THEN 0
     ELSE LET i == CHOOSE k \in diff : \A j \in diff : k <= j
          IN IF a[i] < b[i] THEN -1 ELSE 1

\* Path.common(a, b)
PathCommon(a, b) ==
  LET n    == IF Len(a) < Len(b) THEN Len(a) ELSE Len(b)
      same == {k \in 0..n : \A i \in 1..k : a[i] = b[i]}
  IN SubSeq(a, 1, CHOOSE k \in same : \A j \in same : j <= k)

OperationCanTransformPath(o) ==
  o.type \in {"insert_node", "remove_node", "merge_node", "split_node", "move_node"}

\* The dirty-path list keeps the first occurrence of a path.
AddPath(d, p) ==
  IF p = NullPath \/ (\E i \in 1..Len(d) : d[i] = p) THEN d ELSE Append(d, p)

RECURSIVE AddPaths(_, _)
AddPaths(d, ps) ==
  IF ps = <<>> THEN d ELSE AddPaths(AddPath(d, Head(ps)), Tail(ps))

\* getDirtyPaths(op): the paths an operation makes dirty.
GetDirtyPaths(o) ==
  CASE o.type \in {"insert_text", "remove_text", "set_node"} -> PathLevels(o.path)
    [] o.type = "insert_node" ->
         PathLevels(o.path) \o
         (IF IsText(o.node) THEN <<>>
          ELSE [j \in 1..Len(NodePaths(o.node)) |-> o.path \o NodePaths(o.node)[j]])
    [] o.type = "merge_node" -> PathAncestors(o.path) \o <<PathPrevious(o.path)>>
    [] o.type = "move_node" ->
         IF o.path = o.newPath THEN <<>>
         ELSE LET oldA == PathAncestors(o.path)
                  newA == PathAncestors(o.newPath)
                  tOld == [i \in 1..Len(oldA) |-> TransformPath(oldA[i], o)]
                  tNew == [i \in 1..Len(newA) |-> TransformPath(newA[i], o)]
              IN tOld \o tNew \o <<tNew[Len(tNew)] \o <<Last(o.newPath)>> >>
    [] o.type = "remove_node" -> PathAncestors(o.path)
    [] o.type = "split_node" -> PathLevels(o.path) \o <<PathNext(o.path)>>

NewDirty(d, o) ==
  LET old == IF OperationCanTransformPath(o)
             THEN AddPaths(<<>>, [i \in 1..Len(d) |-> TransformPath(d[i], o)])
             ELSE d
  IN AddPaths(old, GetDirtyPaths(o))

\* GeneralTransforms.transform: the effect of an operation on the tree.
TransformTree(root, o) ==
  LET p      == o.path
      pp     == PathParent(p)
      parent == NodeGet(root, pp)
      i      == Last(p)
      node   == NodeGet(root, p)
  IN
  CASE o.type = "insert_node" ->
         SetChildren(root, pp, SpliceIn(parent.children, i, o.node))
    [] o.type = "remove_node" ->
         SetChildren(root, pp, SpliceOut(parent.children, i))
    [] o.type = "merge_node" ->
         LET prev   == parent.children[i - 1]
             merged == IF IsText(node) /\ IsText(prev)
                       THEN [prev EXCEPT !.text = @ \o node.text]
                       ELSE [prev EXCEPT !.children = @ \o node.children]
         IN SetChildren(root, pp,
              SpliceOut([parent.children EXCEPT ![i - 1] = merged], i))
    [] o.type = "split_node" ->
         LET before == IF IsText(node)
                       THEN [node EXCEPT !.text = SubSeq(@, 1, o.position)]
                       ELSE [node EXCEPT !.children = SubSeq(@, 1, o.position)]
             after  == IF IsText(node)
                       THEN [node EXCEPT !.text = SubSeq(@, o.position + 1, Len(node.text))]
                       ELSE [node EXCEPT !.children =
                               SubSeq(@, o.position + 1, Len(node.children))]
         IN SetChildren(root, pp,
              SpliceIn([parent.children EXCEPT ![i] = before], i + 1, after))
    [] o.type = "move_node" ->
         LET removed  == SetChildren(root, pp, SpliceOut(parent.children, i))
             truePath == TransformPath(p, o)
             np       == PathParent(truePath)
         IN SetChildren(removed, np,
              SpliceIn(NodeGet(removed, np).children, Last(truePath), node))
    [] o.type = "set_node" ->
         ReplaceAt(root, p, [node EXCEPT ![o.field] = o.value])
    [] o.type = "insert_text" ->
         ReplaceAt(root, p,
           [node EXCEPT !.text = SubSeq(@, 1, o.position) \o o.value
                                 \o SubSeq(@, o.position + 1, Len(node.text))])
    [] o.type = "remove_text" ->
         ReplaceAt(root, p,
           [node EXCEPT !.text = SubSeq(@, 1, o.position)
                                 \o SubSeq(@, o.position + Len(o.value) + 1,
                                           Len(node.text))])

\* A point: the path of a text leaf and an offset in its text.
Point(path, offset) == [path |-> path, offset |-> offset]

\* editor.selection is null
NoSelection == Point(NullPath, 0)

\* Node.texts(root): the paths of the text leaves, in document order.
TextPaths(root) == SelectSeq(NodePaths(root), LAMBDA p : IsText(NodeGet(root, p)))

\* remove_node took the node at path, which held the point, out of the tree
\* (root is the tree without it): the point moves to the end of the text
\* before the node or to the start of the text after it.
PointAfterRemove(root, path) ==
  LET texts  == TextPaths(root)
      before == {i \in 1..Len(texts) : PathCompare(texts[i], path) = -1}
      np     == Cardinality(before)
      prev   == IF np > 0 THEN texts[np] ELSE NullPath
      next   == IF np < Len(texts) THEN texts[np + 1] ELSE NullPath
      preferNext ==
        IF prev = NullPath \/ next = NullPath THEN FALSE
        ELSE IF next = path THEN Last(next) = 1
        ELSE Len(PathCommon(prev, path)) < Len(PathCommon(next, path))
  IN IF prev # NullPath /\ ~preferNext
     THEN Point(prev, Len(NodeGet(root, prev).text))
     ELSE IF next # NullPath THEN Point(next, 0)
     ELSE NoSelection

\* What an operation makes of the selection (Point.transform, and the
\* remove_node case of GeneralTransforms.transform); root is the tree after
\* the operation.
TransformPoint(pt, o, root) ==
  IF pt = NoSelection THEN pt
  ELSE CASE o.type = "insert_text" ->
         IF o.path = pt.path /\ o.position <= pt.offset
         THEN [pt EXCEPT !.offset = @ + Len(o.value)] ELSE pt
    [] o.type = "remove_text" ->
         IF o.path = pt.path /\ o.position <= pt.offset
         THEN [pt EXCEPT !.offset =
                 @ - (IF @ - o.position < Len(o.value) THEN @ - o.position
                      ELSE Len(o.value))]
         ELSE pt
    [] o.type = "merge_node" ->
         Point(TransformPath(pt.path, o),
               IF o.path = pt.path THEN pt.offset + o.position ELSE pt.offset)
    [] o.type = "split_node" ->
         IF o.path # pt.path THEN [pt EXCEPT !.path = TransformPath(@, o)]
         ELSE IF o.position <= pt.offset
         THEN Point(TransformPath(pt.path, o), pt.offset - o.position)
         ELSE pt
    [] o.type = "remove_node" ->
         IF o.path = pt.path \/ IsAncestor(o.path, pt.path)
         THEN PointAfterRemove(root, o.path)
         ELSE [pt EXCEPT !.path = TransformPath(@, o)]
    [] o.type \in {"insert_node", "move_node"} ->
         [pt EXCEPT !.path = TransformPath(@, o)]
    [] OTHER -> pt

\* The editor while operations are applied: the tree, the dirty paths,
\* whether a call has thrown ("" while none has), and the selection.
EditorState(t, d, e, s) == [tree |-> t, dirty |-> d, err |-> e, sel |-> s]

\* editor.apply(op)
Apply(es, o) ==
  IF es.err # "" THEN es
  ELSE LET root == TransformTree(es.tree, o) IN
       [es EXCEPT !.tree = root,
                  !.dirty = NewDirty(es.dirty, o),
                  !.sel = TransformPoint(es.sel, o, root)]

Throw(es, what) == IF es.err # "" THEN es ELSE [es EXCEPT !.err = what]

\* The editor's methods and the transforms are bound late (getEditor composes
\* the plugins, each of which replaces methods of the editor object): a call
\* names the function and its arguments, and Call, below, runs it.
RECURSIVE Call(_, _)

apply(es, o) == Call(es, [fn |-> "apply", op |-> o])

setNodes(es, path, field, value) ==
  Call(es, [fn |-> "setNodes", at |-> path, field |-> field, value |-> value])

removeNodes(es, path) == Call(es, [fn |-> "removeNodes", at |-> path])

wrapNodes(es, path, type) == Call(es, [fn |-> "wrapNodes", at |-> path, type |-> type])

liftNodes(es, path) == Call(es, [fn |-> "liftNodes", at |-> path])

unwrapNodes(es, path) == Call(es, [fn |-> "unwrapNodes", at |-> path])

mergeNodes(es, path) == Call(es, [fn |-> "mergeNodes", at |-> path])

coreNormalizeNode(es, path) == Call(es, [fn |-> "createEditor.normalizeNode", at |-> path])

normalizeNode(es, path) == Call(es, [fn |-> "normalizeNode", at |-> path])

normalize(es) == Call(es, [fn |-> "Editor.normalize"])

mergeBlocks(es, leaf) == Call(es, [fn |-> "mergeNodes at point", at |-> leaf])

deleteRange(es, from, to) == Call(es, [fn |-> "delete", from |-> from, to |-> to])

splitNodes(es) == Call(es, [fn |-> "splitNodes"])

coreInsertText(es, text) == Call(es, [fn |-> "createEditor.insertText", text |-> text])

coreDeleteBackward(es) == Call(es, [fn |-> "createEditor.deleteBackward"])

coreDeleteForward(es) == Call(es, [fn |-> "createEditor.deleteForward"])

coreInsertBreak(es) == Call(es, [fn |-> "createEditor.insertBreak"])

markupInsertText(es, text) == Call(es, [fn |-> "withMarkup.insertText", text |-> text])

markupInsertBreak(es) == Call(es, [fn |-> "withMarkup.insertBreak"])

markupDeleteBackward(es) == Call(es, [fn |-> "withMarkup.deleteBackward"])

unfoldSelection(es) == Call(es, [fn |-> "unfoldSelection"])

\* The methods of the editor that getEditor returns
insertText(es, text) == Call(es, [fn |-> "insertText", text |-> text])

deleteBackward(es) == Call(es, [fn |-> "deleteBackward"])

deleteForward(es) == Call(es, [fn |-> "deleteForward"])

insertBreak(es) == Call(es, [fn |-> "insertBreak"])

\* ------------------------------------------------------------------------
\* Transforms of the editing substrate, as the normaliser calls them
\* (always with an explicit {at: path}).
\* ------------------------------------------------------------------------

\* Transforms.setNodes(editor, {field: value}, {at: path}): no operation is
\* issued when the node already carries the value.
SetNodes(es, path, field, value) ==
  IF es.err # "" THEN es
  ELSE IF ~NodeHas(es.tree, path) THEN Throw(es, "setNodes: no node at path")
  ELSE IF path = <<>> \/ NodeGet(es.tree, path)[field] = value THEN es
  ELSE apply(es, OpSetNode(path, field, value))

\* Transforms.removeNodes(editor, {at: path})
RemoveNodes(es, path) ==
  IF es.err # "" THEN es
  ELSE IF ~NodeHas(es.tree, path) THEN Throw(es, "removeNodes: no node at path")
  ELSE apply(es, OpRemoveNode(path))

\* Transforms.wrapNodes(editor, {type}, {at: path}): an empty wrapper is
\* inserted after the node and the node is moved into it.
WrapNodes(es, path, type) ==
  IF es.err # "" THEN es
  ELSE IF ~(HasStartPoint(es.tree, path) /\ HasEndPoint(es.tree, path))
  THEN Throw(es, "wrapNodes: Editor.range on a node without text")
  ELSE LET wrapperPath == PathNext(path)
           wrapper     == Elem(type, 0, Undefined, Undefined, <<>>)
       IN apply(apply(es, OpInsertNode(wrapperPath, wrapper)),
                OpMoveNode(path, wrapperPath \o <<1>>))

\* Transforms.liftNodes(editor, {at: path})
LiftNodes(es, path) ==
  IF es.err # "" THEN es
  ELSE IF Len(path) < 2 THEN Throw(es, "liftNodes: depth less than 2")
  ELSE LET parentPath == PathParent(path)
           parent     == NodeGet(es.tree, parentPath)
           index      == Last(path)
           length     == Len(parent.children)
       IN IF length = 1
          THEN apply(apply(es, OpMoveNode(path, PathNext(parentPath))),
                     OpRemoveNode(parentPath))
          ELSE IF index = 1
          THEN apply(es, OpMoveNode(path, parentPath))
          ELSE IF index = length
          THEN apply(es, OpMoveNode(path, PathNext(parentPath)))
          ELSE IF ~HasStartPoint(es.tree, PathNext(path))
          THEN Throw(es, "liftNodes: Editor.point on a node without text")
          ELSE apply(apply(es, OpSplitNode(parentPath, index)),
                     OpMoveNode(path, PathNext(parentPath)))

\* Transforms.unwrapNodes(editor, {at: path}): every child of the node is
\* lifted in turn; lifting the last one removes the node.
RECURSIVE UnwrapLoop(_, _, _)
UnwrapLoop(es, parentPath, remaining) ==
  IF remaining = 0 \/ es.err # "" THEN es
  ELSE UnwrapLoop(liftNodes(es, parentPath \o <<1>>),
                  PathNext(parentPath), remaining - 1)

UnwrapNodes(es, path) ==
  IF es.err # "" THEN es
  ELSE IF ~(HasStartPoint(es.tree, path) /\ HasEndPoint(es.tree, path))
  THEN Throw(es, "unwrapNodes: Editor.range on a node without text")
  ELSE UnwrapLoop(es, path, Len(NodeGet(es.tree, path).children))

\* Editor.previous(editor, {at: path}): the index of the nearest earlier
\* sibling that holds the text position before the node, 0 when there is
\* none.  Editor.before needs a start point in the document and the node.
CanPrevious(root, path) == HasStartPoint(root, <<>>) /\ HasStartPoint(root, path)

PreviousIndex(root, path) ==
  LET kids == NodeGet(root, PathParent(path)).children
      cand == {j \in 1..(Last(path) - 1) : HasTextLeaf(kids[j])}
  IN IF cand = {} THEN 0 ELSE CHOOSE j \in cand : \A k \in cand : k <= j

\* Editor.isEmpty(editor, element)
IsEmpty(n) ==
  \/ n.children = <<>>
  \/ (Len(n.children) = 1 /\ IsText(n.children[1]) /\ n.children[1].text = "")

\* Transforms.mergeNodes(editor, {at: path}) for a node with an earlier
\* sibling: the node after that sibling is merged into it, unless the
\* sibling is empty, which is removed instead.
MergeNodes(es, path) ==
  IF es.err # "" THEN es
  ELSE IF ~CanPrevious(es.tree, path)
  THEN Throw(es, "mergeNodes: Editor.before on a node without text")
  ELSE LET j == PreviousIndex(es.tree, path) IN
       IF j = 0 THEN es
       ELSE LET prevPath == PathParent(path) \o <<j>>
                prevNode == NodeGet(es.tree, prevPath)
                node     == NodeGet(es.tree, path)
            IN IF IsText(node) # IsText(prevNode)
               THEN Throw(es, "mergeNodes: nodes of different interfaces")
               ELSE IF IsElement(prevNode) /\ IsEmpty(prevNode)
               THEN removeNodes(es, prevPath)
               ELSE IF IsText(prevNode) /\ prevNode.text = "" /\ j # 1
               THEN removeNodes(es, prevPath)
               ELSE apply(es, OpMergeNode(PathNext(prevPath),
                              IF IsText(prevNode) THEN Len(prevNode.text)
                              ELSE Len(prevNode.children)))

\* ------------------------------------------------------------------------
\* The substrate's own normaliser (createEditor().normalizeNode): gives an
\* empty element an empty text, removes children of the wrong kind and
\* merges adjacent text leaves.
\* ------------------------------------------------------------------------

\* Text.equals(a, b, {loose: true}): equal apart from the text.
TextEqualsLoose(a, b) == [a EXCEPT !.text = ""] = [b EXCEPT !.text = ""]

RECURSIVE CoreLoop(_, _, _, _, _, _)
CoreLoop(es, path, node, inl, i, n) ==
  IF es.err # "" \/ i > Len(node.children) THEN es
  ELSE LET cur   == NodeGet(es.tree, path)
           child == node.children[i]
       IN IF IsText(cur) THEN CoreLoop(es, path, node, inl, i + 1, n + 1)
          ELSE IF IsText(child) # inl
          THEN CoreLoop(removeNodes(es, path \o <<n>>), path, node, inl, i + 1, n)
          ELSE IF IsElement(child)
          THEN CoreLoop(es, path, node, inl, i + 1, n + 1)
          ELSE IF n > 1 /\ n - 1 <= Len(cur.children) /\ IsText(cur.children[n - 1])
          THEN LET prev == cur.children[n - 1] IN
               IF TextEqualsLoose(child, prev)
               THEN CoreLoop(mergeNodes(es, path \o <<n>>), path, node, inl, i + 1, n)
               ELSE IF prev.text = ""
               THEN CoreLoop(removeNodes(es, path \o <<n - 1>>), path, node, inl, i + 1, n)
               ELSE IF child.text = ""
               THEN CoreLoop(removeNodes(es, path \o <<n>>), path, node, inl, i + 1, n)
               ELSE CoreLoop(es, path, node, inl, i + 1, n + 1)
          ELSE CoreLoop(es, path, node, inl, i + 1, n + 1)

CoreNormalizeNode(es, path) ==
  LET node == NodeGet(es.tree, path) IN
  IF es.err # "" \/ IsText(node) THEN es
  ELSE IF path # <<>> /\ node.children = <<>>
  THEN apply(es, OpInsertNode(path \o <<1>>, TextNode("")))
  ELSE LET inl == (path # <<>>) /\ IsText(node.children[1])
       IN CoreLoop(es, path, node, inl, 1, 1)

\* ------------------------------------------------------------------------
\* Folding
\* ------------------------------------------------------------------------

\* doFold(editor, node, path, folded)
doFold(es, node, path, folded) ==
  IF (IF node.folded = Undefined THEN "false" ELSE node.folded) = folded THEN es
  ELSE setNodes(es, path, "folded", folded)

\* ------------------------------------------------------------------------
\* withFixNesting: the structural normaliser.  A check returns the editor
\* state together with ok, the boolean the source's helper returns.
\* ------------------------------------------------------------------------

Checked(es, ok) == [es |-> es, ok |-> ok]

\* checkParent that removes what is below the wrong parent.
checkParentRemoves(es, node, path, type) ==
  IF NodeGet(es.tree, PathParent(path)).type = type THEN Checked(es, TRUE)
  ELSE Checked(removeNodes(es, path), FALSE)

checkParent(es, node, path, type) ==
  LET parent == NodeGet(es.tree, PathParent(path)) IN
  IF parent.type = type THEN Checked(es, TRUE)
  ELSE Checked(wrapNodes(es, path, type), FALSE)

\* checkIsFirst with the test of the index inverted.
checkIsFirstInverted(es, node, path, type) ==
  IF Last(path) # 1 THEN Checked(es, TRUE)
  ELSE Checked(liftNodes(wrapNodes(es, path, type), path), FALSE)

\* checkIsFirst that takes a header for the first wherever it is.
checkIsFirstAnywhere(es, node, path, type) == Checked(es, TRUE)

checkIsFirst(es, node, path, type) ==
  IF Last(path) = 1 THEN Checked(es, TRUE)
  ELSE Checked(liftNodes(wrapNodes(es, path, type), path), FALSE)

\* updateParentName that finds every name up to date.
updateParentNameNever(es, node, path) == Checked(es, TRUE)

updateParentName(es, node, path) ==
  LET at     == PathParent(path)
      parent == NodeGet(es.tree, at)
      text   == NodeString(node)
  IN IF parent.name = text THEN Checked(es, TRUE)
     ELSE Checked(setNodes(es, at, "name", text), FALSE)

\* checkBlockHeader that merges without unfolding.
checkBlockHeaderFolded(es, block, path, type) ==
  IF block.children = <<>> THEN Checked(removeNodes(es, path), FALSE)
  ELSE IF block.children[1].type = type THEN Checked(es, TRUE)
  ELSE IF ~CanPrevious(es.tree, path)
  THEN Checked(Throw(es, "Editor.previous on a node without text"), FALSE)
  ELSE LET j == PreviousIndex(es.tree, path) IN
       IF j = 0 THEN Checked(es, TRUE)
       ELSE IF NodeGet(es.tree, PathParent(path) \o <<j>>).type # block.type
       THEN Checked(es, TRUE)
       ELSE Checked(mergeNodes(es, path), FALSE)

checkBlockHeader(es, block, path, type) ==
  IF block.children = <<>> THEN Checked(removeNodes(es, path), FALSE)
  ELSE IF block.children[1].type = type THEN Checked(es, TRUE)
  ELSE IF ~CanPrevious(es.tree, path)
  THEN Checked(Throw(es, "Editor.previous on a node without text"), FALSE)
  ELSE LET j == PreviousIndex(es.tree, path) IN
       IF j = 0 THEN Checked(es, TRUE)
       ELSE LET prevPath == PathParent(path) \o <<j>>
                prev     == NodeGet(es.tree, prevPath)
            IN IF prev.type # block.type THEN Checked(es, TRUE)
               ELSE Checked(
                      mergeNodes(
                        doFold(doFold(es, prev, prevPath, "false"),
                               block, path, "false"),
                        path),
                      FALSE)

checkFirstHeader(es, block, path, type) ==
  IF IsText(block) \/ block.children = <<>>
  THEN Checked(Throw(es, "checkFirstHeader: block.children[0] is undefined"), FALSE)
  ELSE IF block.children[1].type = type THEN Checked(es, TRUE)
  ELSE Checked(setNodes(es, path \o <<1>>, "type", type), FALSE)

\* The root rule of withFixNesting.normalizeNode.
FixRoot(es) ==
  IF ~NodeHas(es.tree, <<1, 1>>)
  THEN Throw(es, "Editor.node: no node at [0,0]")
  ELSE LET first == NodeGet(es.tree, <<1, 1>>) IN
       IF first.type = "hpart" THEN coreNormalizeNode(es, <<>>)
       ELSE setNodes(IF first.type = "scene" THEN unwrapNodes(es, <<1, 1>>) ELSE es,
                     <<1, 1>>, "type", "hpart")

\* withFixNesting: editor.normalizeNode([node, path])
FixNesting(es, path) ==
  LET node == NodeGet(es.tree, path) IN
  IF IsText(node) THEN coreNormalizeNode(es, path)
  ELSE IF path = <<>> THEN FixRoot(es)
  ELSE CASE node.type = "hpart" ->
         LET c1 == checkParent(es, node, path, "part") IN
         IF ~c1.ok THEN c1.es ELSE
         LET c2 == checkIsFirst(es, node, path, "part") IN
         IF ~c2.ok THEN c2.es ELSE
         LET c3 == updateParentName(es, node, path) IN
         IF ~c3.ok THEN c3.es ELSE coreNormalizeNode(es, path)
    [] node.type = "hscene" ->
         LET c1 == checkParent(es, node, path, "scene") IN
         IF ~c1.ok THEN c1.es ELSE
         LET c2 == checkIsFirst(es, node, path, "scene") IN
         IF ~c2.ok THEN c2.es ELSE
         LET c3 == updateParentName(es, node, path) IN
         IF ~c3.ok THEN c3.es ELSE coreNormalizeNode(es, path)
    [] node.type = "part" ->
         IF Len(path) > 1 THEN liftNodes(es, path) ELSE
         LET c1 == checkBlockHeader(es, node, path, "hpart") IN
         IF ~c1.ok THEN c1.es ELSE
         IF Len(node.children) > 1
         THEN LET c2 == checkFirstHeader(es, node.children[2], path \o <<2>>, "hscene")
              IN IF ~c2.ok THEN c2.es ELSE coreNormalizeNode(es, path)
         ELSE coreNormalizeNode(es, path)
    [] node.type = "scene" ->
         IF Len(path) < 2 THEN wrapNodes(es, path, "part")
         ELSE IF Len(path) > 2 THEN liftNodes(es, path)
         ELSE LET c1 == checkBlockHeader(es, node, path, "hscene") IN
              IF ~c1.ok THEN c1.es ELSE coreNormalizeNode(es, path)
    [] OTHER ->
         LET c1 == checkParent(es, node, path, "scene") IN
         IF ~c1.ok THEN c1.es ELSE coreNormalizeNode(es, path)

\* ------------------------------------------------------------------------
\* withIDs: the identity enforcer
\* ------------------------------------------------------------------------

RECURSIVE IdsOf(_)
IdsOf(n) ==
  (IF IsText(n) \/ n.id = 0 THEN {} ELSE {n.id})
  \cup UNION {IdsOf(n.children[i]) : i \in 1..Len(n.children)}

\* nanoid(): an identifier that no element of the tree carries and that
\* this pass has not handed out.
nanoid(root, ids) ==
  LET used == IdsOf(root) \cup ids
  IN CHOOSE k \in 1..(Cardinality(used) + 1) : k \notin used

\* Editor.nodes(editor, {at: [], match: element}): the paths of all
\* elements below the root, in document order.
ElementPaths(root) ==
  SelectSeq(NodePaths(root), LAMBDA p : p # <<>> /\ IsElement(NodeGet(root, p)))

\* The loop of withIDs without the test for an id seen before.
RECURSIVE IdLoopMissingOnly(_, _, _, _)
IdLoopMissingOnly(es, blocks, k, ids) ==
  IF es.err # "" \/ k > Len(blocks) THEN es
  ELSE LET path == blocks[k]
           node == NodeGet(es.tree, path)
       IN IF node.id = 0
          THEN LET id == nanoid(es.tree, ids)
               IN IdLoopMissingOnly(setNodes(es, path, "id", id), blocks, k + 1,
                                    ids \cup {id})
          ELSE IdLoopMissingOnly(es, blocks, k + 1, ids \cup {node.id})

\* The loop of withIDs giving every element a new id.
RECURSIVE IdLoopEvery(_, _, _, _)
IdLoopEvery(es, blocks, k, ids) ==
  IF es.err # "" \/ k > Len(blocks) THEN es
  ELSE LET id == nanoid(es.tree, ids)
       IN IdLoopEvery(setNodes(es, blocks[k], "id", id), blocks, k + 1, ids \cup {id})

RECURSIVE IdLoop(_, _, _, _)
IdLoop(es, blocks, k, ids) ==
  IF es.err # "" \/ k > Len(blocks) THEN es
  ELSE LET path == blocks[k]
           node == NodeGet(es.tree, path)
       IN IF node.id = 0 \/ node.id \in ids
          THEN LET id == nanoid(es.tree, ids)
               IN IdLoop(setNodes(es, path, "id", id), blocks, k + 1, ids \cup {id})
          ELSE IdLoop(es, blocks, k + 1, ids \cup {node.id})

\* withIDs: editor.normalizeNode([node, path]), the outermost normaliser.
NormalizeNode(es, path) ==
  IF es.err # "" THEN es
  ELSE IF Len(path) > 0 THEN FixNesting(es, path)
  ELSE FixNesting(IdLoop(es, ElementPaths(es.tree), 1, {}), path)

\* ------------------------------------------------------------------------
\* Editor.normalize: first the dirty elements without children, then the
\* dirty paths from the last to the first, at most 42 times their number.
\* ------------------------------------------------------------------------

MaxIterationFactor == 42

RECURSIVE PrePass(_, _, _)
PrePass(es, snap, k) ==
  IF es.err # "" \/ k > Len(snap) THEN es
  ELSE LET path == snap[k] IN
       IF /\ path # <<>>
          /\ NodeHas(es.tree, path)
          /\ IsElement(NodeGet(es.tree, path))
          /\ NodeGet(es.tree, path).children = <<>>
       THEN PrePass(normalizeNode(es, path), snap, k + 1)
       ELSE PrePass(es, snap, k + 1)

\* One iteration of the while loop of Editor.normalize.
NormalizeIteration(es) ==
  LET path == es.dirty[Len(es.dirty)]
      rest == [es EXCEPT !.dirty = SubSeq(@, 1, Len(@) - 1)]
  IN IF NodeHas(es.tree, path) THEN normalizeNode(rest, path) ELSE rest

\* Editor.normalize(editor), from its first to its last iteration
RECURSIVE NormalizeLoop(_, _, _)
NormalizeLoop(es, k, cap) ==
  IF es.err # "" \/ es.dirty = <<>> THEN es
  ELSE IF k > cap THEN Throw(es, "Could not completely normalize the editor")
  ELSE NormalizeLoop(NormalizeIteration(es), k + 1, cap)

Normalize(es) ==
  IF es.err # "" \/ es.dirty = <<>> THEN es
  ELSE LET pre == PrePass(es, es.dirty, 1)
       IN NormalizeLoop(pre, 0, Len(pre.dirty) * MaxIterationFactor)

\* ------------------------------------------------------------------------
\* The substrate's editing primitives, for a collapsed selection.  A
\* transform called outside Editor.withoutNormalizing normalises the editor
\* before it returns.
\* ------------------------------------------------------------------------

\* The text leaf before and after the leaf at path, in document order
\* (NullPath: none).
PreviousText(root, path) ==
  LET texts == TextPaths(root)
      i     == CHOOSE k \in 1..Len(texts) : texts[k] = path
  IN IF i = 1 THEN NullPath ELSE texts[i - 1]

NextText(root, path) ==
  LET texts == TextPaths(root)
      i     == CHOOSE k \in 1..Len(texts) : texts[k] = path
  IN IF i = Len(texts) THEN NullPath ELSE texts[i + 1]

\* hasSingleChildNest(editor, node)
RECURSIVE HasSingleChildNest(_)
HasSingleChildNest(n) ==
  IF IsText(n) THEN TRUE
  ELSE Len(n.children) = 1 /\ HasSingleChildNest(n.children[1])

\* Transforms.mergeNodes(editor, {at: point, hanging: true}), the point at
\* the start of the text leaf at leaf: the block of the point is merged into
\* the block before it, moved next to it first when it is no sibling of it;
\* the ancestors the move leaves empty are removed, and so is the block
\* before, instead of the merge, when it is empty.
MergeBlocks(es, leaf) ==
  LET before == PreviousText(es.tree, leaf) IN
  IF es.err # "" \/ before = NullPath THEN es
  ELSE LET path     == PathParent(leaf)
           prevPath == PathParent(before)
           prevNode == NodeGet(es.tree, prevPath)
           newPath  == PathNext(prevPath)
           common   == Len(PathCommon(path, prevPath))
           nests    == {k \in (common + 1)..(Len(path) - 1) :
                          HasSingleChildNest(NodeGet(es.tree, SubSeq(path, 1, k)))}
           empty    == IF nests = {} THEN NullPath
                       ELSE SubSeq(path, 1, CHOOSE k \in nests : \A j \in nests : k <= j)
           move     == OpMoveNode(path, newPath)
           moved    == IF IsSibling(path, prevPath) THEN es ELSE apply(es, move)
           emptied  == IF empty = NullPath THEN moved
                       ELSE removeNodes(moved, TransformPath(empty, move))
       IN IF path = prevPath \/ Len(path) = 0 \/ Len(prevPath) = 0 THEN es
          ELSE IF IsEmpty(prevNode) THEN removeNodes(emptied, prevPath)
          ELSE apply(emptied, OpMergeNode(newPath, Len(prevNode.children)))

\* Transforms.delete(editor, {at: {anchor: from, focus: to}}) for two
\* points, from before to, of one text leaf, of two leaves of one block or
\* of two blocks with no text between the points
DeleteRange(es, from, to) ==
  IF es.err # "" THEN es
  ELSE IF from.path = to.path
  THEN IF from.offset = to.offset THEN es
       ELSE apply(es, OpRemoveText(from.path, from.offset,
                        SubSeq(NodeGet(es.tree, from.path).text,
                               from.offset + 1, to.offset)))
  ELSE LET head  == NodeGet(es.tree, from.path).text
           tail  == NodeGet(es.tree, to.path).text
           cut   == IF from.offset = Len(head) THEN es
                    ELSE apply(es, OpRemoveText(from.path, from.offset,
                                     SubSeq(head, from.offset + 1, Len(head))))
           cut2  == IF to.offset = 0 THEN cut
                    ELSE apply(cut, OpRemoveText(to.path, 0, SubSeq(tail, 1, to.offset)))
       IN IF PathParent(from.path) = PathParent(to.path) THEN cut2
          ELSE mergeBlocks(cut2, to.path)

\* Editor.before(editor, point) and Editor.after(editor, point), a
\* character away (NoSelection: none)
PointBefore(root, pt) ==
  IF pt.offset > 0 THEN Point(pt.path, pt.offset - 1)
  ELSE LET prev == PreviousText(root, pt.path) IN
       IF prev = NullPath THEN NoSelection
       ELSE LET n == Len(NodeGet(root, prev).text) IN
            IF PathParent(prev) = PathParent(pt.path) /\ n > 0
            THEN Point(prev, n - 1) ELSE Point(prev, n)

PointAfter(root, pt) ==
  IF pt.offset < Len(NodeGet(root, pt.path).text) THEN Point(pt.path, pt.offset + 1)
  ELSE LET next == NextText(root, pt.path) IN
       IF next = NullPath THEN NoSelection
       ELSE IF PathParent(next) = PathParent(pt.path) /\ NodeGet(root, next).text # ""
       THEN Point(next, 1) ELSE Point(next, 0)

\* createEditor().insertText(text)
CoreInsertText(es, text) ==
  IF es.err # "" \/ es.sel = NoSelection THEN es
  ELSE normalize(apply(es, OpInsertText(es.sel.path, es.sel.offset, text)))

\* createEditor().deleteBackward("character")
CoreDeleteBackward(es) ==
  IF es.err # "" \/ es.sel = NoSelection THEN es
  ELSE LET target == PointBefore(es.tree, es.sel) IN
       IF target = NoSelection THEN es
       ELSE normalize(deleteRange(es, target, es.sel))

\* createEditor().deleteForward("character")
CoreDeleteForward(es) ==
  IF es.err # "" \/ es.sel = NoSelection THEN es
  ELSE LET target == PointAfter(es.tree, es.sel) IN
       IF target = NoSelection THEN es
       ELSE normalize(deleteRange(es, es.sel, target))

\* Transforms.splitNodes(editor, {always: true}), not yet normalised: the
\* text leaf is split at the caret, then the block after the first half
SplitNodes(es) ==
  apply(apply(es, OpSplitNode(es.sel.path, es.sel.offset)),
        OpSplitNode(PathParent(es.sel.path), Last(es.sel.path)))

\* createEditor().insertBreak()
CoreInsertBreak(es) ==
  IF es.err # "" \/ es.sel = NoSelection THEN es
  ELSE normalize(splitNodes(es))

\* ------------------------------------------------------------------------
\* withMarkup: shortcuts that style a block, the style that follows a
\* style, backspace at the start of a styled block
\* ------------------------------------------------------------------------

SHORTCUTS ==
  [key \in {"** ", "## ", ">> ", "// ", "!! "} |->
     CASE key = "** " -> "hpart"
       [] key = "## " -> "hscene"
       [] key = ">> " -> "synopsis"
       [] key = "// " -> "comment"
       [] key = "!! " -> "missing"]

STYLEAFTER ==
  [type \in {"hpart", "hscene", "synopsis", "missing"} |->
     IF type = "hpart" THEN "hscene" ELSE "p"]

RESETEMPTY == {"synopsis", "comment", "missing"}

\* Editor.above(editor, {match: n => Editor.isBlock(editor, n)}): the block
\* that holds the caret
BlockAbove(es) == PathParent(es.sel.path)

\* Editor.string(editor, {anchor, focus: Editor.start(editor, path)}): the
\* text of the block before the caret
RECURSIVE StringBefore(_, _, _)
StringBefore(block, i, offset) ==
  IF i = 1 THEN SubSeq(block.children[1].text, 1, offset)
  ELSE StringBefore(block, i - 1, Len(block.children[i - 1].text))
       \o SubSeq(block.children[i].text, 1, offset)

\* An insertText that takes the whole text of the block for the key.
MarkupInsertTextWholeBlock(es, text) ==
  IF es.err # "" \/ es.sel = NoSelection THEN coreInsertText(es, text)
  ELSE LET path  == BlockAbove(es)
           start == Point(path \o <<1>>, 0)
           key   == NodeString(NodeGet(es.tree, path)) \o text
       IN IF key \in DOMAIN SHORTCUTS
          THEN LET deleted ==
                     IF es.sel = start
                     THEN coreDeleteForward(es)
                     ELSE normalize(deleteRange(es, start, es.sel))
               IN IF deleted.sel = NoSelection THEN deleted
                  ELSE normalize(setNodes(deleted, BlockAbove(deleted), "type",
                                          SHORTCUTS[key]))
          ELSE coreInsertText(es, text)

\* withMarkup: editor.insertText(text)
MarkupInsertText(es, text) ==
  IF es.err # "" \/ es.sel = NoSelection THEN coreInsertText(es, text)
  ELSE LET path  == BlockAbove(es)
           start == Point(path \o <<1>>, 0)
           key   == StringBefore(NodeGet(es.tree, path), Last(es.sel.path),
                                 es.sel.offset) \o text
       IN IF key \in DOMAIN SHORTCUTS
          THEN LET deleted ==
                     IF es.sel = start
                     THEN coreDeleteForward(es)
                     ELSE normalize(deleteRange(es, start, es.sel))
               IN IF deleted.sel = NoSelection THEN deleted
                  ELSE normalize(setNodes(deleted, BlockAbove(deleted), "type",
                                          SHORTCUTS[key]))
          ELSE coreInsertText(es, text)

\* An insertBreak without the style that follows a style.
MarkupInsertBreakInherit(es) ==
  IF es.err # "" \/ es.sel = NoSelection THEN coreInsertBreak(es)
  ELSE LET path == BlockAbove(es)
           node == NodeGet(es.tree, path)
       IN IF node.type \in RESETEMPTY /\ NodeString(node) = ""
          THEN normalize(setNodes(es, path, "type", "p"))
          ELSE coreInsertBreak(es)

\* An insertBreak that looks for the style that follows before it looks for
\* the empty line.
MarkupInsertBreakStyleFirst(es) ==
  IF es.err # "" \/ es.sel = NoSelection THEN coreInsertBreak(es)
  ELSE LET path == BlockAbove(es)
           node == NodeGet(es.tree, path)
       IN IF node.type \in DOMAIN STYLEAFTER
          THEN LET split == splitNodes(es)
               IN normalize(setNodes(split, BlockAbove(split), "type",
                                     STYLEAFTER[node.type]))
          ELSE IF node.type \in RESETEMPTY /\ NodeString(node) = ""
          THEN normalize(setNodes(es, path, "type", "p"))
          ELSE coreInsertBreak(es)

\* withMarkup: editor.insertBreak()
MarkupInsertBreak(es) ==
  IF es.err # "" \/ es.sel = NoSelection THEN coreInsertBreak(es)
  ELSE LET path == BlockAbove(es)
           node == NodeGet(es.tree, path)
       IN IF node.type \in RESETEMPTY /\ NodeString(node) = ""
          THEN normalize(setNodes(es, path, "type", "p"))
          ELSE IF node.type \in DOMAIN STYLEAFTER
          THEN LET split == splitNodes(es)
               IN normalize(setNodes(split, BlockAbove(split), "type",
                                     STYLEAFTER[node.type]))
          ELSE coreInsertBreak(es)

\* elemIsBlock(editor, elem)
elemIsBlock(root, path) == path # <<>> /\ IsElement(NodeGet(root, path))

\* A deleteBackward that does not look where in the block the caret is.
MarkupDeleteBackwardAnywhere(es) ==
  IF es.err # "" \/ es.sel = NoSelection THEN coreDeleteBackward(es)
  ELSE LET path == BlockAbove(es)
           node == NodeGet(es.tree, path)
       IN IF ~elemIsBlock(es.tree, path) THEN coreDeleteBackward(es)
          ELSE IF node.type \in {"missing", "comment", "synopsis", "hpart", "hscene"}
          THEN normalize(setNodes(es, path, "type", "p"))
          ELSE coreDeleteBackward(es)

\* withMarkup: editor.deleteBackward(unit)
MarkupDeleteBackward(es) ==
  IF es.err # "" \/ es.sel = NoSelection THEN coreDeleteBackward(es)
  ELSE LET path == BlockAbove(es)
           node == NodeGet(es.tree, path)
       IN IF ~elemIsBlock(es.tree, path) THEN coreDeleteBackward(es)
          ELSE IF es.sel # Point(NodeFirst(es.tree, path), 0) THEN coreDeleteBackward(es)
          ELSE IF node.type \in {"missing", "comment", "synopsis", "hpart", "hscene"}
          THEN normalize(setNodes(es, path, "type", "p"))
          ELSE coreDeleteBackward(es)

\* ------------------------------------------------------------------------
\* withProtectFolds: a key pressed inside a folded part or scene unfolds it.
\* A handler returns the editor state together with entered, the tree it
\* handed to the method it wraps, and ran, whether it called that method.
\* ------------------------------------------------------------------------

\* Editor.above in the mode "highest": the outermost folded ancestor.
FoldedAboveHighest(es) ==
  IF es.sel = NoSelection THEN NullPath
  ELSE LET p    == es.sel.path
           hits == {k \in 1..(Len(p) - 1) :
                      NodeGet(es.tree, SubSeq(p, 1, k)).folded = "true"}
       IN IF hits = {} THEN NullPath
          ELSE SubSeq(p, 1, CHOOSE k \in hits : \A j \in hits : k <= j)

\* Editor.above(editor, {match: n => Element.isElement(n) && n.folded}): the
\* path of the nearest folded ancestor of the caret (NullPath: none)
FoldedAbove(es) ==
  IF es.sel = NoSelection THEN NullPath
  ELSE LET p    == es.sel.path
           hits == {k \in 1..(Len(p) - 1) :
                      NodeGet(es.tree, SubSeq(p, 1, k)).folded = "true"}
       IN IF hits = {} THEN NullPath
          ELSE SubSeq(p, 1, CHOOSE k \in hits : \A j \in hits : j <= k)

UnfoldSelection(es) ==
  LET path == FoldedAbove(es) IN
  IF es.err # "" \/ path = NullPath THEN Checked(es, FALSE)
  ELSE Checked(normalize(doFold(es, NodeGet(es.tree, path), path, "false")), TRUE)

Handled(es, entered, ran) == [es |-> es, entered |-> entered, ran |-> ran]

\* withProtectFolds: editor.insertText(text)
ProtectInsertText(es, text) ==
  LET u == unfoldSelection(es)
  IN Handled(markupInsertText(u.es, text), u.es.tree, TRUE)

\* withProtectFolds: editor.deleteBackward(options)
ProtectDeleteBackward(es) ==
  LET u == unfoldSelection(es)
  IN Handled(markupDeleteBackward(u.es), u.es.tree, TRUE)

\* withProtectFolds: editor.deleteForward(options)
ProtectDeleteForward(es) ==
  LET u == unfoldSelection(es)
  IN Handled(coreDeleteForward(u.es), u.es.tree, TRUE)

\* An insertBreak written like the other three handlers: unfold, then break.
ProtectInsertBreakAlways(es) ==
  LET u == unfoldSelection(es)
  IN Handled(markupInsertBreak(u.es), u.es.tree, TRUE)

\* withProtectFolds: editor.insertBreak()
ProtectInsertBreak(es) ==
  LET u == unfoldSelection(es)
  IN IF u.ok THEN Handled(u.es, u.es.tree, FALSE)
     ELSE Handled(markupInsertBreak(u.es), u.es.tree, TRUE)

\* The editor that getEditor composes: each call runs the function it names.
Call(es, c) ==
  CASE c.fn = "apply" -> Apply(es, c.op)
    [] c.fn = "setNodes" -> SetNodes(es, c.at, c.field, c.value)
    [] c.fn = "removeNodes" -> RemoveNodes(es, c.at)
    [] c.fn = "wrapNodes" -> WrapNodes(es, c.at, c.type)
    [] c.fn = "liftNodes" -> LiftNodes(es, c.at)
    [] c.fn = "unwrapNodes" -> UnwrapNodes(es, c.at)
    [] c.fn = "mergeNodes" -> MergeNodes(es, c.at)
    [] c.fn = "createEditor.normalizeNode" -> CoreNormalizeNode(es, c.at)
    [] c.fn = "normalizeNode" -> NormalizeNode(es, c.at)
    [] c.fn = "Editor.normalize" -> Normalize(es)
    [] c.fn = "mergeNodes at point" -> MergeBlocks(es, c.at)
    [] c.fn = "delete" -> DeleteRange(es, c.from, c.to)
    [] c.fn = "splitNodes" -> SplitNodes(es)
    [] c.fn = "createEditor.insertText" -> CoreInsertText(es, c.text)
    [] c.fn = "createEditor.deleteBackward" -> CoreDeleteBackward(es)
    [] c.fn = "createEditor.deleteForward" -> CoreDeleteForward(es)
    [] c.fn = "createEditor.insertBreak" -> CoreInsertBreak(es)
    [] c.fn = "withMarkup.insertText" -> MarkupInsertText(es, c.text)
    [] c.fn = "withMarkup.insertBreak" -> MarkupInsertBreak(es)
    [] c.fn = "withMarkup.deleteBackward" -> MarkupDeleteBackward(es)
    [] c.fn = "unfoldSelection" -> UnfoldSelection(es)
    [] c.fn = "insertText" -> ProtectInsertText(es, c.text)
    [] c.fn = "deleteBackward" -> ProtectDeleteBackward(es)
    [] c.fn = "deleteForward" -> ProtectDeleteForward(es)
    [] c.fn = "insertBreak" -> ProtectInsertBreak(es)

\* ------------------------------------------------------------------------
\* The edit/document bridge.  An object of the persisted document carries
\* ref, the identity of the JavaScript object (what === compares), and
\* words, its cached word count.  An object a function creates has the
\* identity NewRef; no comparison of the bridge has the same created object
\* on both of its sides.
\* ------------------------------------------------------------------------

NewRef == <<0>>

Doc(ref, words, elem) ==
  [ref |-> ref, words |-> words, type |-> elem.type, id |-> elem.id,
   name |-> elem.name, folded |-> elem.folded, text |-> elem.text,
   children |-> elem.children]

\* a === b on two objects
Same(a, b) == a.ref # NewRef /\ a.ref = b.ref

Counts(t, c, mi) == [text |-> t, comments |-> c, missing |-> mi]

\* wcElem(elem): the words of the text, the comment and the missing blocks
\* below elem; a character of the model's texts stands for a word.
RECURSIVE wcElem(_)
RECURSIVE wcSum(_)
wcSum(kids) ==
  IF kids = <<>> THEN Counts(0, 0, 0)
  ELSE LET a == wcElem(Head(kids))
           b == wcSum(Tail(kids))
       IN Counts(a.text + b.text, a.comments + b.comments, a.missing + b.missing)

wcElem(elem) ==
  CASE elem.type \in {"sect", "part", "scene"} -> wcSum(elem.children)
    [] elem.type = "p" -> Counts(Len(NodeString(elem)), 0, 0)
    [] elem.type = "comment" -> Counts(0, Len(NodeString(elem)), 0)
    [] elem.type = "missing" -> Counts(0, 0, Len(NodeString(elem)))
    [] OTHER -> Counts(0, 0, 0)

\* The parts, scenes and paragraphs below kids, in document order.
RECURSIVE Flat(_)
Flat(kids) ==
  IF kids = <<>> THEN <<>>
  ELSE LET n == Head(kids) IN
       (IF IsText(n) THEN <<>> ELSE <<n>> \o Flat(n.children)) \o Flat(Tail(kids))

\* section2lookup(section): a Map from id to the object of the section
\* that carries it.
section2lookup(section) == Flat(section.parts)

\* lookup.has(id)
LookupHas(lookup, id) == \E i \in 1..Len(lookup) : lookup[i].id = id

\* lookup.get(id)
LookupGet(lookup, id) ==
  lookup[CHOOSE i \in 1..Len(lookup) :
           /\ lookup[i].id = id
           /\ \A j \in (i + 1)..Len(lookup) : lookup[j].id # id]

SectionIds(section) ==
  LET all == section2lookup(section) IN {all[i].id : i \in 1..Len(all)}

\* nanoid(), called for the k-th time while a section is opened: the k-th
\* identifier that no object of the section carries.
FreshId(used, k) ==
  CHOOSE n \in 1..(Cardinality(used) + k) :
    n \notin used /\ Cardinality({x \in 1..n : x \notin used}) = k

\* The headers that section2edit has made before it reaches part i.
RECURSIVE HeadersBefore(_, _)
HeadersBefore(parts, i) ==
  IF i <= 1 THEN 0
  ELSE HeadersBefore(parts, i - 1) + 1 + Len(parts[i - 1].children)

\* {type, id: nanoid(), children: [{text: name ?? ""}]}
Header(type, id, name) ==
  Doc(NewRef, Undefined,
      Elem(type, id, Undefined, Undefined,
           <<TextNode(IF name = Undefined THEN "" ELSE name)>>))

elem2edit(elem) ==
  IF elem.type = "br" THEN [elem EXCEPT !.type = "p", !.ref = NewRef] ELSE elem

\* used: the ids of the section; k: the calls of nanoid() made so far
scene2edit(scene, used, k) ==
  Doc(NewRef, Undefined,
      Elem("scene", scene.id, scene.name, scene.folded,
           <<Header("hscene", FreshId(used, k + 1), scene.name)>>
           \o [i \in 1..Len(scene.children) |-> elem2edit(scene.children[i])]))

part2edit(part, used, k) ==
  Doc(NewRef, Undefined,
      Elem("part", part.id, part.name, part.folded,
           <<Header("hpart", FreshId(used, k + 1), part.name)>>
           \o [j \in 1..Len(part.children) |->
                 scene2edit(part.children[j], used, k + j)]))

section2edit(section) ==
  [i \in 1..Len(section.parts) |->
     part2edit(section.parts[i], SectionIds(section),
               HeadersBefore(section.parts, i))]

cmpList(a, b) ==
  /\ Len(a) = Len(b)
  /\ \A index \in 1..Len(a) : Same(a[index], b[index])

cmpType(elem, orig) == elem.id = orig.id /\ elem.type = orig.type

cmpTypeName(elem, orig) == cmpType(elem, orig) /\ elem.name = orig.name

cmpChildren(elem, orig) == cmpList(elem.children, orig.children)

cmpNamedGroup(elem, orig) ==
  /\ cmpTypeName(elem, orig)
  /\ elem.folded = orig.folded
  /\ cmpChildren(elem, orig)

\* checkClean that takes any object of the lookup with the id and the type.
checkCleanByType(elem, lookup) ==
  LET orig == LookupGet(lookup, elem.id) IN
  IF LookupHas(lookup, elem.id) /\ (Same(elem, orig) \/ cmpType(elem, orig))
  THEN orig
  ELSE [elem EXCEPT !.ref = NewRef, !.words = wcElem(elem)]

\* checkClean that writes what changed into the object of the lookup.
checkCleanInPlace(elem, lookup) ==
  LET orig == LookupGet(lookup, elem.id) IN
  IF LookupHas(lookup, elem.id)
  THEN [orig EXCEPT !.type = elem.type, !.name = elem.name, !.folded = elem.folded,
                    !.children = elem.children, !.words = wcElem(elem)]
  ELSE [elem EXCEPT !.ref = NewRef, !.words = wcElem(elem)]

checkClean(elem, lookup) ==
  LET orig == LookupGet(lookup, elem.id) IN
  IF /\ LookupHas(lookup, elem.id)
     /\ \/ Same(elem, orig)
        \/ /\ cmpType(elem, orig)
           /\ CASE elem.type \in {"part", "scene"} -> cmpNamedGroup(elem, orig)
                [] elem.type = "br" -> TRUE
                [] OTHER -> elem.children[1].text = orig.children[1].text
  THEN orig
  ELSE [elem EXCEPT !.ref = NewRef, !.words = wcElem(elem)]

edit2paragraph(elem, lookup) == checkClean(elem, lookup)

\* A destructuring that takes no head off.
RestWithHead(children) == children

\* const [head, ...rest] = children
Rest(children) == IF children = <<>> THEN <<>> ELSE Tail(children)

edit2scene(scene, lookup) ==
  LET paragraphs == Rest(scene.children) IN
  checkClean(
    Doc(NewRef, Undefined,
        Elem("scene", scene.id, scene.name, scene.folded,
             [i \in 1..Len(paragraphs) |-> edit2paragraph(paragraphs[i], lookup)])),
    lookup)

edit2part(part, lookup) ==
  LET scenes == Rest(part.children) IN
  checkClean(
    Doc(NewRef, Undefined,
        Elem("part", part.id, part.name, part.folded,
             [i \in 1..Len(scenes) |-> edit2scene(scenes[i], lookup)])),
    lookup)

updateSection(buffer, section) ==
  LET lookup  == section2lookup(section)
      updated == [i \in 1..Len(buffer) |-> edit2part(buffer[i], lookup)]
  IN IF cmpList(updated, section.parts) THEN section
     ELSE [section EXCEPT
             !.ref = NewRef,
             !.parts = updated,
             !.words = wcElem([type |-> "sect", text |-> Undefined,
                               children |-> updated])]

\* ------------------------------------------------------------------------
\* Documents the editor is opened with
\* ------------------------------------------------------------------------

Block(type, id, text) == Elem(type, id, Undefined, Undefined, <<TextNode(text)>>)

Scene(id, hid, name, folded, paragraphs) ==
  Elem("scene", id, name, folded, <<Block("hscene", hid, name)>> \o paragraphs)

Part(id, hid, name, folded, scenes) ==
  Elem("part", id, name, folded, <<Block("hpart", hid, name)>> \o scenes)

DocTwoParts ==
  EditorNode(<<
    Part(1, 2, "A", Undefined, <<Scene(3, 4, "b", Undefined, <<Block("p", 5, "x")>>)>>),
    Part(6, 7, "C", "true", <<Scene(8, 9, "d", Undefined, <<Block("comment", 10, "y")>>)>>) >>)

InitTrees == {DocTwoParts}

\* Documents of any nesting: forests of n elements, whose leaves are blocks
\* of text and whose inner nodes are parts and scenes, without ids or names.
MaxNodes == 3

RECURSIVE Forests(_)
RECURSIVE TreesOfSize(_)
TreesOfSize(k) ==
  IF k = 1 THEN {Block(t, 0, "a") : t \in {"hpart", "hscene", "p"}}
  ELSE {Elem(t, 0, Undefined, Undefined, f) : t \in {"part", "scene"}, f \in Forests(k - 1)}

Forests(n) ==
  IF n = 0 THEN {<<>>}
  ELSE UNION {{<<t>> \o f : t \in TreesOfSize(k), f \in Forests(n - k)} : k \in 1..n}

AnyTrees == {EditorNode(f) : f \in UNION {Forests(n) : n \in 1..MaxNodes}}

\* ------------------------------------------------------------------------
\* Bounds
\* ------------------------------------------------------------------------

MaxEdits == 2

MaxRounds == 1

\* Elements of a document, the editor included, that an edit may grow to.
MaxElements == 12

MaxTextLen == 2

RECURSIVE CountElements(_)
RECURSIVE CountAll(_)
CountAll(kids) ==
  IF kids = <<>> THEN 0 ELSE CountElements(Head(kids)) + CountAll(Tail(kids))

CountElements(n) == IF IsText(n) THEN 0 ELSE 1 + CountAll(n.children)

BlockTypes == {"hpart", "hscene", "p"}

\* A block: an element that holds text leaves.
IsBlockOfText(n) == IsElement(n) /\ n.children # <<>> /\ IsText(n.children[1])

RECURSIVE ElementsBelow(_, _)
ElementsBelow(n, prefix) ==
  UNION {IF IsText(n.children[i]) THEN {}
         ELSE {prefix \o <<i>>} \cup ElementsBelow(n.children[i], prefix \o <<i>>)
         : i \in 1..Len(n.children)}

\* The paths of all elements below the root.
ElementPathSet(root) == ElementsBelow(root, <<>>)

\* The paths of all nodes of a tree, the root (<<>>) too.
RECURSIVE PathsBelow(_, _)
PathsBelow(n, prefix) ==
  {prefix} \cup
  (IF IsText(n) THEN {}
   ELSE UNION {PathsBelow(n.children[i], prefix \o <<i>>) : i \in 1..Len(n.children)})

AllPathSet(root) == PathsBelow(root, <<>>)

TextPathSet(root) == {p \in AllPathSet(root) : IsText(NodeGet(root, p))}

NodesOfType(root, type) ==
  {p \in ElementPathSet(root) : NodeGet(root, p).type = type}

\* ------------------------------------------------------------------------
\* Persisted sections
\* ------------------------------------------------------------------------

Paragraph(ref, type, id, text) ==
  LET e == Elem(type, id, Undefined, Undefined, <<TextNode(text)>>)
  IN Doc(ref, wcElem(e), e)

Group(ref, type, id, name, folded, children) ==
  LET e == Elem(type, id, name, folded, children) IN Doc(ref, wcElem(e), e)

Section(parts) ==
  [ref |-> <<>>, type |-> "sect", parts |-> parts,
   words |-> wcElem([type |-> "sect", text |-> Undefined, children |-> parts])]

PersistedTypes == {"p", "br", "comment"}

\* Two parts, three scenes, four paragraphs of the types t[1]..t[4]; ref is
\* the place of the object in the section.
SectionOf(t, folded) ==
  Section(<<
    Group(<<1>>, "part", 1, "A", Undefined, <<
      Group(<<1, 1>>, "scene", 2, "b", Undefined,
            <<Paragraph(<<1, 1, 1>>, t[1], 3, "x"), Paragraph(<<1, 1, 2>>, t[2], 4, "")>>),
      Group(<<1, 2>>, "scene", 5, Undefined, folded,
            <<Paragraph(<<1, 2, 1>>, t[3], 6, "y")>>) >>),
    Group(<<2>>, "part", 7, "C", folded, <<
      Group(<<2, 1>>, "scene", 8, "d", Undefined,
            <<Paragraph(<<2, 1, 1>>, t[4], 9, "w")>>) >>) >>)

Sections ==
  {SectionOf(t, folded) : t \in [1..4 -> PersistedTypes], folded \in {Undefined, "true"}}

\* ------------------------------------------------------------------------
\* The state machine
\* ------------------------------------------------------------------------

\* No section is involved while the editor is edited and normalised.
BridgeUnused ==
  /\ stored = Section(<<>>)
  /\ opened = <<>>
  /\ saved = stored
  /\ io = "closed"

\* No key has been pressed.
NoKey ==
  [key |-> "none", text |-> "", before |-> EditorNode(<<>>), at |-> NoSelection,
   entered |-> EditorNode(<<>>), ran |-> FALSE]

\* The editor has no selection: no key reaches it.
KeysUnused == sel = NoSelection /\ last = NoKey

Init ==
  /\ tree \in InitTrees
  /\ dirty = <<>>
  /\ mode = "idle"
  /\ m = 0
  /\ max = 0
  /\ err = ""
  /\ edits = 0
  /\ round = 0
  /\ BridgeUnused
  /\ KeysUnused

CanEdit == mode = "idle" /\ err = "" /\ edits < MaxEdits /\ round < MaxRounds

NoEmptyElement(root) ==
  /\ root.children # <<>>
  /\ \A p \in ElementPathSet(root) : NodeGet(root, p).children # <<>>

\* The outcome of an operation applied while normalising is suspended
\* (Editor.withoutNormalizing): the dirty paths pile up.  Every element of
\* an edited document still holds a child: the substrate has no point inside
\* an empty element and throws when asked for one.
Edited(es) ==
  /\ NoEmptyElement(es.tree)
  /\ es.err = ""
  /\ tree' = es.tree
  /\ dirty' = es.dirty
  /\ err' = es.err
  /\ sel' = es.sel
  /\ edits' = edits + 1
  /\ UNCHANGED <<mode, m, max, round, bridgeVars, last>>

Now == EditorState(tree, dirty, err, sel)

BlockPathSet(root) == {p \in ElementPathSet(root) : IsBlockOfText(NodeGet(root, p))}

\* Transforms.setNodes(editor, {type}, {at: path}) on a block
\* (a markup shortcut, or backspace at the start of a styled block)
EditSetType ==
  /\ CanEdit
  /\ \E path \in BlockPathSet(tree), type \in BlockTypes :
       /\ NodeGet(tree, path).type # type
       /\ Edited(setNodes(Now, path, "type", type))

\* Transforms.insertText(editor, text) with the caret at the end of a block
EditInsertText ==
  /\ CanEdit
  /\ \E path \in BlockPathSet(tree) :
       /\ Len(NodeGet(tree, path).children) = 1
       /\ Len(NodeGet(tree, path \o <<1>>).text) < MaxTextLen
       /\ Edited(apply(Now, OpInsertText(path \o <<1>>,
                                         Len(NodeGet(tree, path \o <<1>>).text), "z")))

\* Transforms.removeNodes(editor, {at: path})
EditRemove ==
  /\ CanEdit
  /\ \E path \in ElementPathSet(tree) : Edited(removeNodes(Now, path))

\* Transforms.insertNodes(editor, block, {at: path}): a new paragraph that
\* carries no id, or a pasted copy of the block, after a block
EditInsert ==
  /\ CanEdit
  /\ CountElements(tree) < MaxElements
  /\ \E path \in BlockPathSet(tree), copy \in BOOLEAN :
       LET node == IF copy THEN NodeGet(tree, path) ELSE Block("p", 0, "n")
       IN Edited(apply(Now, OpInsertNode(PathNext(path), node)))

\* Transforms.splitNodes(editor, {always: true}) with the caret at the end of
\* a block: the text leaf is split, then the block, which copies its
\* properties (the id too)
EditSplit ==
  /\ CanEdit
  /\ CountElements(tree) < MaxElements
  /\ \E path \in BlockPathSet(tree) :
       /\ Len(NodeGet(tree, path).children) = 1
       /\ Edited(apply(apply(Now,
                   OpSplitNode(path \o <<1>>, Len(NodeGet(tree, path \o <<1>>).text))),
                   OpSplitNode(path, 1)))

\* Transforms.mergeNodes(editor, {at: path}): a block is merged into the
\* block before it
EditMerge ==
  /\ CanEdit
  /\ \E path \in BlockPathSet(tree) :
       /\ Last(path) > 1
       /\ IsBlockOfText(NodeGet(tree, PathPrevious(path)))
       /\ Edited(mergeNodes(Now, path))

\* Transforms.wrapNodes(editor, {type}, {at: path})
EditWrap ==
  /\ CanEdit
  /\ CountElements(tree) < MaxElements
  /\ \E path \in ElementPathSet(tree), type \in {"part", "scene"} :
       Edited(wrapNodes(Now, path, type))

\* Transforms.liftNodes(editor, {at: path})
EditLift ==
  /\ CanEdit
  /\ CountElements(tree) < MaxElements
  /\ \E path \in ElementPathSet(tree) :
       /\ Len(path) >= 2
       /\ Edited(liftNodes(Now, path))

\* toggleFold: doFold on a part or a scene
EditFold ==
  /\ CanEdit
  /\ \E path \in NodesOfType(tree, "part") \cup NodesOfType(tree, "scene") :
       LET node == NodeGet(tree, path)
       IN Edited(doFold(Now, node, path,
                        IF node.folded = "true" THEN "false" ELSE "true"))

\* Editor.normalize, up to the while loop
StartNormalize ==
  /\ mode = "idle"
  /\ err = ""
  /\ dirty # <<>>
  /\ LET es == PrePass(Now, dirty, 1) IN
       /\ tree' = es.tree
       /\ dirty' = es.dirty
       /\ err' = es.err
       /\ sel' = es.sel
       /\ max' = Len(es.dirty) * MaxIterationFactor
       /\ m' = 0
       /\ mode' = "normalizing"
  /\ UNCHANGED <<edits, round, bridgeVars, last>>

\* Editor.normalize, one iteration of the while loop
NormalizeStep ==
  /\ mode = "normalizing"
  /\ err = ""
  /\ dirty # <<>>
  /\ IF m > max
     THEN /\ err' = "Could not completely normalize the editor"
          /\ UNCHANGED <<tree, dirty, mode, m, max, edits, round, sel>>
     ELSE LET es == NormalizeIteration(Now) IN
          /\ tree' = es.tree
          /\ dirty' = es.dirty
          /\ err' = es.err
          /\ sel' = es.sel
          /\ m' = m + 1
          /\ UNCHANGED <<mode, max, edits, round>>
  /\ UNCHANGED <<bridgeVars, last>>

\* Editor.normalize returns: no dirty path is left
FinishNormalize ==
  /\ mode = "normalizing"
  /\ err = ""
  /\ dirty = <<>>
  /\ mode' = "idle"
  /\ edits' = 0
  /\ round' = round + 1
  /\ UNCHANGED <<tree, dirty, err, m, max, bridgeVars, keyVars>>

Next ==
  \/ EditSetType
  \/ EditInsertText
  \/ EditRemove
  \/ EditInsert
  \/ EditSplit
  \/ EditMerge
  \/ EditWrap
  \/ EditLift
  \/ EditFold
  \/ StartNormalize
  \/ NormalizeStep
  \/ FinishNormalize

Spec == Init /\ [][Next]_vars

\* The editor holds a document of any nesting, all of whose nodes have just
\* been inserted: every path is dirty.
InitAny ==
  /\ tree \in AnyTrees
  /\ dirty = NodePaths(tree)
  /\ mode = "idle"
  /\ m = 0
  /\ max = 0
  /\ err = ""
  /\ edits = 0
  /\ round = 0
  /\ BridgeUnused
  /\ KeysUnused

NextAny ==
  \/ StartNormalize
  \/ NormalizeStep
  \/ FinishNormalize

SpecAnyTree == InitAny /\ [][NextAny]_vars

\* The editor holds a scene of a header "Old" and a paragraph "hi" and no
\* part around it, with or without ids and with or without the name of the
\* scene; every path is dirty.
BareScene(id, name) ==
  EditorNode(<<
    Elem("scene", id[1], name, Undefined,
         <<Block("hscene", id[2], "Old"), Block("p", id[3], "hi")>>) >>)

BareScenes ==
  {BareScene(id, name) : id \in {0, 1} \X {0, 2} \X {0, 3}, name \in {Undefined, "Old"}}

InitBareScene ==
  /\ tree \in BareScenes
  /\ dirty = NodePaths(tree)
  /\ mode = "idle"
  /\ m = 0
  /\ max = 0
  /\ err = ""
  /\ edits = 0
  /\ round = 0
  /\ BridgeUnused
  /\ KeysUnused

SpecBareScene == InitBareScene /\ [][NextAny]_vars

\* A fixed point: normalisation has run and left nothing dirty.
Stable == mode = "idle" /\ dirty = <<>> /\ err = ""

\* ------------------------------------------------------------------------
\* Opening a section, editing the buffer, saving it
\* ------------------------------------------------------------------------

MaxBufferEdits == 2

BufferTexts == {"", "x", "q"}

InitBridge ==
  /\ tree = EditorNode(<<>>)
  /\ dirty = <<>>
  /\ mode = "idle"
  /\ m = 0
  /\ max = 0
  /\ err = ""
  /\ edits = 0
  /\ round = 0
  /\ stored \in Sections
  /\ opened = <<>>
  /\ saved = stored
  /\ io = "closed"
  /\ KeysUnused

\* section2edit(section)
OpenSection ==
  /\ io = "closed"
  /\ opened' = section2edit(stored)
  /\ io' = "open"
  /\ UNCHANGED <<editorVars, edits, stored, saved, keyVars>>

\* The places <<i, j, k>> of the paragraphs of the buffer.
BufferParagraphs(b) ==
  {<<i, j, k>> \in (1..Len(b)) \X (2..3) \X (2..3) :
     j <= Len(b[i].children) /\ k <= Len(b[i].children[j].children)}

\* The places <<i>> and <<i, j>> of the parts and scenes of the buffer.
BufferGroups(b) ==
  {<<i>> : i \in 1..Len(b)}
  \cup {<<i, j>> \in (1..Len(b)) \X (2..3) : j <= Len(b[i].children)}

\* The substrate never changes an object: an edit makes a new object of the
\* node it changes and of every ancestor of it.
BufferEdited(b) ==
  /\ opened' = b
  /\ edits' = edits + 1
  /\ UNCHANGED <<editorVars, stored, saved, io, keyVars>>

\* The text of one paragraph of the buffer is replaced.
BufferSetText ==
  /\ io = "open"
  /\ edits < MaxBufferEdits
  /\ \E at \in BufferParagraphs(opened), text \in BufferTexts :
       LET old == opened[at[1]].children[at[2]].children[at[3]] IN
       /\ old.children[1].text # text
       /\ BufferEdited(
            [opened EXCEPT ![at[1]].children[at[2]].children[at[3]] =
               [old EXCEPT !.ref = NewRef, !.children = <<TextNode(text)>>]])

\* doFold on a part or a scene of the buffer
BufferFold ==
  /\ io = "open"
  /\ edits < MaxBufferEdits
  /\ \E at \in BufferGroups(opened) :
       LET part == opened[at[1]]
           to   == IF (IF Len(at) = 1 THEN part ELSE part.children[at[2]]).folded = "true"
                   THEN "false" ELSE "true"
       IN BufferEdited(
            IF Len(at) = 1
            THEN [opened EXCEPT ![at[1]].folded = to, ![at[1]].ref = NewRef]
            ELSE [opened EXCEPT ![at[1]].children[at[2]].folded = to,
                                ![at[1]].children[at[2]].ref = NewRef,
                                ![at[1]].ref = NewRef])

\* updateSection(buffer, section)
SaveSection ==
  /\ io = "open"
  /\ saved' = updateSection(opened, stored)
  /\ io' = "saved"
  /\ UNCHANGED <<editorVars, edits, stored, opened, keyVars>>

NextBridge ==
  \/ OpenSection
  \/ BufferSetText
  \/ BufferFold
  \/ SaveSection

SpecBridge == InitBridge /\ [][NextBridge]_vars

\* ------------------------------------------------------------------------
\* A valid document whose first scene holds three paragraphs; a block gets
\* another type, or a part header is put between the scenes of a part.
\* ------------------------------------------------------------------------

SplitDoc ==
  EditorNode(<<
    Part(1, 2, "A", Undefined,
         <<Scene(3, 4, "b", Undefined,
                 <<Block("p", 5, "x"), Block("p", 6, "y"), Block("p", 7, "z")>>),
           Scene(8, 9, "c", Undefined, <<Block("p", 10, "w")>>)>>),
    Part(11, 12, "C", Undefined,
         <<Scene(13, 14, "d", Undefined, <<Block("comment", 15, "v")>>)>>) >>)

InitSplit ==
  /\ tree = SplitDoc
  /\ dirty = <<>>
  /\ mode = "idle"
  /\ m = 0
  /\ max = 0
  /\ err = ""
  /\ edits = 0
  /\ round = 0
  /\ BridgeUnused
  /\ KeysUnused

\* Transforms.insertNodes(editor, {type: "hpart", ...}, {at: path}) between
\* the children of a part
EditInsertHeader ==
  /\ CanEdit
  /\ \E i \in 1..Len(tree.children) :
       \E k \in 2..(Len(tree.children[i].children) + 1) :
         /\ tree.children[i].type = "part"
         /\ Edited(apply(Now, OpInsertNode(<<i, k>>, Block("hpart", 16, "n"))))

NextSplit ==
  \/ EditSetType
  \/ EditInsertHeader
  \/ StartNormalize
  \/ NormalizeStep
  \/ FinishNormalize

SpecSplit == InitSplit /\ [][NextSplit]_vars

\* ------------------------------------------------------------------------
\* Every kind of edit of the buffer of a section, one of whose paragraphs
\* may hold two text leaves (two runs of text that differ in their marks,
\* which the substrate does not merge).
\* ------------------------------------------------------------------------

ParagraphOf(ref, type, id, texts) ==
  LET e == Elem(type, id, Undefined, Undefined, [l \in 1..Len(texts) |-> TextNode(texts[l])])
  IN Doc(ref, wcElem(e), e)

EditedSection(texts, type, folded) ==
  Section(<<
    Group(<<1>>, "part", 1, "A", Undefined, <<
      Group(<<1, 1>>, "scene", 2, "b", folded,
            <<ParagraphOf(<<1, 1, 1>>, type, 3, texts), Paragraph(<<1, 1, 2>>, "p", 4, "w")>>),
      Group(<<1, 2>>, "scene", 5, "c", Undefined,
            <<Paragraph(<<1, 2, 1>>, "comment", 6, "y")>>) >>),
    Group(<<2>>, "part", 7, "C", Undefined, <<
      Group(<<2, 1>>, "scene", 8, "d", Undefined,
            <<Paragraph(<<2, 1, 1>>, "p", 9, "w")>>) >>) >>)

EditedSections ==
  {EditedSection(texts, type, folded) :
     texts \in {<<"x">>, <<"x", "y">>}, type \in {"p", "comment"},
     folded \in {Undefined, "true"}}

InitBridgeEdits ==
  /\ tree = EditorNode(<<>>)
  /\ dirty = <<>>
  /\ mode = "idle"
  /\ m = 0
  /\ max = 0
  /\ err = ""
  /\ edits = 0
  /\ round = 0
  /\ stored \in EditedSections
  /\ opened = <<>>
  /\ saved = stored
  /\ io = "closed"
  /\ KeysUnused

\* The places <<i>> of the parts, <<i, j>> of the scenes and <<i, j, k>> of
\* the paragraphs of the buffer; the first child of a part and of a scene is
\* its header.
PartPlaces(b) == {<<i>> : i \in 1..Len(b)}

ScenePlaces(b) ==
  UNION {{<<i, j>> : j \in 2..Len(b[i].children)} : i \in 1..Len(b)}

ParagraphPlaces(b) ==
  UNION {{<<at[1], at[2], k>> : k \in 2..Len(b[at[1]].children[at[2]].children)}
         : at \in ScenePlaces(b)}

BufferGet(b, at) ==
  IF Len(at) = 1 THEN b[at[1]]
  ELSE IF Len(at) = 2 THEN b[at[1]].children[at[2]]
  ELSE b[at[1]].children[at[2]].children[at[3]]

\* The children of the node at a place (of the buffer itself when at is
\* <<>>) are replaced: the node and its ancestors are new objects.
BufferWithChildren(b, at, kids) ==
  IF Len(at) = 0 THEN kids
  ELSE IF Len(at) = 1
  THEN [b EXCEPT ![at[1]].children = kids, ![at[1]].ref = NewRef]
  ELSE IF Len(at) = 2
  THEN [b EXCEPT ![at[1]].children[at[2]].children = kids,
                 ![at[1]].children[at[2]].ref = NewRef,
                 ![at[1]].ref = NewRef]
  ELSE [b EXCEPT ![at[1]].children[at[2]].children[at[3]].children = kids,
                 ![at[1]].children[at[2]].children[at[3]].ref = NewRef,
                 ![at[1]].children[at[2]].ref = NewRef,
                 ![at[1]].ref = NewRef]

BufferChildren(b, at) == IF Len(at) = 0 THEN b ELSE BufferGet(b, at).children

\* The node at a place is replaced by a new object.
BufferWith(b, at, node) ==
  BufferWithChildren(b, PathParent(at),
    [BufferChildren(b, PathParent(at)) EXCEPT ![Last(at)] = [node EXCEPT !.ref = NewRef]])

CanEditBuffer == io = "open" /\ edits < MaxBufferEdits

\* insert_text, remove_text: the text of one leaf of a paragraph changes
BufferSetLeaf ==
  /\ CanEditBuffer
  /\ \E at \in ParagraphPlaces(opened), text \in BufferTexts :
       \E l \in 1..Len(BufferGet(opened, at).children) :
         /\ BufferGet(opened, at).children[l].text # text
         /\ BufferEdited(BufferWithChildren(opened, at,
              [BufferGet(opened, at).children EXCEPT ![l].text = text]))

\* set_node: the type of a paragraph changes
BufferSetType ==
  /\ CanEditBuffer
  /\ \E at \in ParagraphPlaces(opened), type \in {"p", "comment", "missing"} :
       /\ BufferGet(opened, at).type # type
       /\ BufferEdited(BufferWith(opened, at, [BufferGet(opened, at) EXCEPT !.type = type]))

\* The text of the header of a part or a scene changes, and the normaliser
\* has given the part or the scene its name.
BufferRename ==
  /\ CanEditBuffer
  /\ \E at \in PartPlaces(opened) \cup ScenePlaces(opened), name \in {"A", "n"} :
       LET old == BufferGet(opened, at) IN
       /\ old.name # name
       /\ BufferEdited(BufferWith(opened, at,
            [old EXCEPT !.name = name,
                        !.children[1] = [old.children[1] EXCEPT
                                           !.ref = NewRef,
                                           !.children = <<TextNode(name)>>]]))

\* doFold on a part or a scene of the buffer
BufferToggleFold ==
  /\ CanEditBuffer
  /\ \E at \in PartPlaces(opened) \cup ScenePlaces(opened) :
       LET old == BufferGet(opened, at) IN
       BufferEdited(BufferWith(opened, at,
         [old EXCEPT !.folded = IF old.folded = "true" THEN "false" ELSE "true"]))

\* remove_node: a scene or a paragraph leaves the buffer
BufferRemove ==
  /\ CanEditBuffer
  /\ \E at \in ScenePlaces(opened) \cup ParagraphPlaces(opened) :
       BufferEdited(BufferWithChildren(opened, PathParent(at),
         SpliceOut(BufferChildren(opened, PathParent(at)), Last(at))))

\* insert_node: a new paragraph, with an id of its own, enters a scene
BufferInsert ==
  /\ CanEditBuffer
  /\ \E at \in ScenePlaces(opened) :
       \E k \in 2..(Len(BufferGet(opened, at).children) + 1) :
         BufferEdited(BufferWithChildren(opened, at,
           SpliceIn(BufferGet(opened, at).children, k,
                    Doc(NewRef, Undefined,
                        Block("p", 20 + edits, "n")))))

\* move_node: a part, a scene or a paragraph changes places with the
\* sibling after it
BufferMove ==
  /\ CanEditBuffer
  /\ \E at \in PartPlaces(opened) \cup ScenePlaces(opened) \cup ParagraphPlaces(opened) :
       LET kids == BufferChildren(opened, PathParent(at))
           i    == Last(at)
       IN /\ i < Len(kids)
          /\ BufferEdited(BufferWithChildren(opened, PathParent(at),
               [kids EXCEPT ![i] = kids[i + 1], ![i + 1] = kids[i]]))

NextBridgeEdits ==
  \/ OpenSection
  \/ BufferSetLeaf
  \/ BufferSetType
  \/ BufferRename
  \/ BufferToggleFold
  \/ BufferRemove
  \/ BufferInsert
  \/ BufferMove
  \/ SaveSection

SpecBridgeEdits == InitBridgeEdits /\ [][NextBridgeEdits]_vars

\* ------------------------------------------------------------------------
\* Keys pressed in the editor
\* ------------------------------------------------------------------------

MaxKeys == 2

MaxKeyTextLen == 3

KeyTexts == {"z", " ", "## "}

FoldFlags == {Undefined, "true"}

\* Two parts of a scene each, folded or not; a paragraph that holds the
\* start of a shortcut, and an empty comment.
KeyDoc(f) ==
  EditorNode(<<
    Part(1, 2, "A", f[1], <<Scene(3, 4, "b", f[2], <<Block("p", 5, "##")>>)>>),
    Part(6, 7, "C", f[3], <<Scene(8, 9, "d", f[4], <<Block("comment", 10, "")>>)>>) >>)

KeyDocs == {KeyDoc(f) : f \in [1..4 -> FoldFlags]}

\* The carets of a tree: every offset of every text leaf.
Carets(root) ==
  UNION {{Point(p, k) : k \in 0..Len(NodeGet(root, p).text)} : p \in TextPathSet(root)}

InitKeys ==
  /\ tree \in KeyDocs
  /\ dirty = <<>>
  /\ mode = "idle"
  /\ m = 0
  /\ max = 0
  /\ err = ""
  /\ edits = 0
  /\ round = 0
  /\ BridgeUnused
  /\ sel \in Carets(tree) \cup {NoSelection}
  /\ last = NoKey

CanPress == mode = "idle" /\ err = "" /\ edits < MaxKeys

\* The tree stays within the bounds of the model.
Fits(root) ==
  /\ CountElements(root) <= MaxElements
  /\ \A p \in TextPathSet(root) : Len(NodeGet(root, p).text) <= MaxKeyTextLen

Pressed(key, text, h) ==
  /\ Fits(h.es.tree)
  /\ tree' = h.es.tree
  /\ dirty' = h.es.dirty
  /\ err' = h.es.err
  /\ sel' = h.es.sel
  /\ last' = [key |-> key, text |-> text, before |-> tree, at |-> sel,
              entered |-> h.entered, ran |-> h.ran]
  /\ edits' = edits + 1
  /\ UNCHANGED <<mode, m, max, round, bridgeVars>>

KeyInsertText ==
  /\ CanPress
  /\ \E text \in KeyTexts : Pressed("insertText", text, insertText(Now, text))

KeyDeleteBackward ==
  /\ CanPress
  /\ Pressed("deleteBackward", "", deleteBackward(Now))

KeyDeleteForward ==
  /\ CanPress
  /\ Pressed("deleteForward", "", deleteForward(Now))

KeyInsertBreak ==
  /\ CanPress
  /\ Pressed("insertBreak", "", insertBreak(Now))

NextKeys ==
  \/ KeyInsertText
  \/ KeyDeleteBackward
  \/ KeyDeleteForward
  \/ KeyInsertBreak

SpecKeys == InitKeys /\ [][NextKeys]_vars

\* Keys pressed in a document without folds, whose scene holds a block of any
\* paragraph type, empty or not, before a paragraph.
MarkupTypes == {"p", "comment", "synopsis", "missing"}

MarkupTexts == {"", "ab"}

MarkupDoc(type, text) ==
  EditorNode(<<
    Part(1, 2, "A", Undefined,
         <<Scene(3, 4, "b", Undefined, <<Block(type, 5, text), Block("p", 6, "c")>>)>>) >>)

MarkupDocs == {MarkupDoc(type, text) : type \in MarkupTypes, text \in MarkupTexts}

InitMarkup ==
  /\ tree \in MarkupDocs
  /\ dirty = <<>>
  /\ mode = "idle"
  /\ m = 0
  /\ max = 0
  /\ err = ""
  /\ edits = 0
  /\ round = 0
  /\ BridgeUnused
  /\ sel \in Carets(tree) \cup {NoSelection}
  /\ last = NoKey

SpecMarkup == InitMarkup /\ [][NextKeys]_vars

\* ------------------------------------------------------------------------
\* The structural invariants of the editable tree
\* ------------------------------------------------------------------------

ParagraphTypes == {"p", "comment", "missing", "synopsis"}

PartShape(n) ==
  /\ Len(n.children) >= 1
  /\ IsElement(n.children[1]) /\ n.children[1].type = "hpart"
  /\ \A i \in 2..Len(n.children) :
       IsElement(n.children[i]) /\ n.children[i].type = "scene"

SceneShape(n) ==
  /\ Len(n.children) >= 1
  /\ IsElement(n.children[1]) /\ n.children[1].type = "hscene"
  /\ \A i \in 2..Len(n.children) :
       IsBlockOfText(n.children[i]) /\ n.children[i].type \in ParagraphTypes

\* The name of a container equals the text of its header, where it has one.
NameInSync(n, header) ==
  (n.children # <<>> /\ IsElement(n.children[1]) /\ n.children[1].type = header)
    => n.name = NodeString(n.children[1])

DepthOK(root) ==
  /\ root.children # <<>>
  /\ \A p \in ElementPathSet(root) :
       LET n == NodeGet(root, p)
           parent == NodeGet(root, PathParent(p))
       IN CASE n.type = "part" -> Len(p) = 1
            [] n.type = "scene" -> Len(p) = 2 /\ parent.type = "part"
            [] n.type = "hpart" -> Len(p) = 2 /\ parent.type = "part"
            [] OTHER -> Len(p) = 3 /\ parent.type = "scene"

UniqueIds(root) ==
  /\ \A p \in ElementPathSet(root) : NodeGet(root, p).id # 0
  /\ \A p, q \in ElementPathSet(root) :
       p # q => NodeGet(root, p).id # NodeGet(root, q).id

\* C1: at a fixed point of normalisation every part has exactly one hpart
\* child, at index 0, and every later child is a scene.
C1_PartShape ==
  Stable => \A p \in NodesOfType(tree, "part") : PartShape(NodeGet(tree, p))

\* C2: at a fixed point of normalisation every scene has exactly one hscene
\* child, at index 0, and every later child is a paragraph-family block.
C2_SceneShape ==
  Stable => \A p \in NodesOfType(tree, "scene") : SceneShape(NodeGet(tree, p))

\* C3: at a fixed point of normalisation the name of each part and scene
\* equals the text of its header child.
C3_NameSync ==
  Stable =>
    /\ \A p \in NodesOfType(tree, "part") : NameInSync(NodeGet(tree, p), "hpart")
    /\ \A p \in NodesOfType(tree, "scene") : NameInSync(NodeGet(tree, p), "hscene")

\* A fixed point reached after edits, with a part or a scene whose name is
\* not a name of the buffer document and is the text of its header.
C3_Witness ==
  /\ Stable
  /\ round = 1
  /\ \E p \in NodesOfType(tree, "part") \cup NodesOfType(tree, "scene") :
       LET n == NodeGet(tree, p) IN
       /\ n.children # <<>>
       /\ n.children[1].type \in {"hpart", "hscene"}
       /\ n.name = NodeString(n.children[1])
       /\ n.name \notin {"A", "b", "C", "d"}

\* C4: at a fixed point of normalisation parts are the children of the
\* root, scenes the children of parts, hpart a child of a part and every
\* other block a child of a scene.
C4_Depth == Stable => DepthOK(tree)

\* The normaliser is about to be invoked on the root path.
RootIsNext == mode = "normalizing" /\ err = "" /\ dirty # <<>> /\ Last(dirty) = <<>>

\* C5: when withIDs runs on the root path, its loop leaves every element
\* with a non-empty id that no other element shares, and so it is at a fixed
\* point of normalisation, also when the rules wrapped or split containers.
C5_UniqueIds ==
  /\ RootIsNext => UniqueIds(IdLoop(Now, ElementPaths(tree), 1, {}).tree)
  /\ Stable => UniqueIds(tree)

\* A fixed point reached after edits, with more containers than the opened
\* document had: a rule wrapped or split one.
C5_Witness ==
  /\ Stable
  /\ round = 1
  /\ Cardinality(NodesOfType(tree, "part") \cup NodesOfType(tree, "scene")) > 4
  /\ UniqueIds(tree)

NoError == err = ""

\* Every iteration of Editor.normalize counts towards its allowance, or is
\* the last one.
Progress == mode = "normalizing" => (m' = m + 1 \/ mode' = "idle")

C7_Idempotent ==
  Stable => \A p \in AllPathSet(tree) : normalizeNode(Now, p) = Now

\* ------------------------------------------------------------------------
\* The bridge: what a save reuses and what it rebuilds
\* ------------------------------------------------------------------------

\* C8: the buffer made of a section with unique ids, saved as it was made,
\* gives back the very same section object, every part, scene and paragraph
\* of it the original object, also when the section holds "br" blocks.
C8_ReuseStability == (io = "saved" /\ edits = 0) => saved = stored

\* What a paragraph, a scene and a part hold, apart from the identity of
\* the object and its cached word count; skip: leave out the header.
PlainParagraph(p) == [type |-> p.type, id |-> p.id, text |-> NodeString(p)]

PlainScene(scene, skip) ==
  LET kids == IF skip THEN Rest(scene.children) ELSE scene.children IN
  [id |-> scene.id, name |-> scene.name, folded |-> scene.folded,
   children |-> [k \in 1..Len(kids) |-> PlainParagraph(kids[k])]]

PlainPart(part, skip) ==
  LET kids == IF skip THEN Rest(part.children) ELSE part.children IN
  [id |-> part.id, name |-> part.name, folded |-> part.folded,
   children |-> [j \in 1..Len(kids) |-> PlainScene(kids[j], skip)]]

PlainParts(parts, skip) == [i \in 1..Len(parts) |-> PlainPart(parts[i], skip)]

\* The places <<i, j, k>> of the paragraphs of the stored section.
StoredParagraphs ==
  {<<i, j, k>> \in (1..Len(stored.parts)) \X (1..2) \X (1..2) :
     /\ j <= Len(stored.parts[i].children)
     /\ k <= Len(stored.parts[i].children[j].children)}

\* The buffer differs from the stored section in the text of the paragraph
\* at the place at, and in nothing else.
OnlyTextDiffers(at) ==
  LET a == PlainParts(opened, TRUE)
      b == PlainParts(stored.parts, FALSE)
  IN /\ a # b
     /\ [a EXCEPT ![at[1]].children[at[2]].children[at[3]].text =
           b[at[1]].children[at[2]].children[at[3]].text] = b

\* The saved section is a new object in which the paragraph at the place at,
\* its scene and its part are new objects and every other part, scene and
\* paragraph is the object of the stored section.
OnlyChainRebuilt(at) ==
  LET i == at[1]
      j == at[2]
      k == at[3]
  IN /\ saved.ref = NewRef
     /\ Len(saved.parts) = Len(stored.parts)
     /\ \A x \in 1..Len(stored.parts) : x # i => saved.parts[x] = stored.parts[x]
     /\ saved.parts[i].ref = NewRef
     /\ Len(saved.parts[i].children) = Len(stored.parts[i].children)
     /\ \A y \in 1..Len(stored.parts[i].children) :
          y # j => saved.parts[i].children[y] = stored.parts[i].children[y]
     /\ saved.parts[i].children[j].ref = NewRef
     /\ Len(saved.parts[i].children[j].children)
          = Len(stored.parts[i].children[j].children)
     /\ \A z \in 1..Len(stored.parts[i].children[j].children) :
          z # k => saved.parts[i].children[j].children[z]
                     = stored.parts[i].children[j].children[z]
     /\ saved.parts[i].children[j].children[k].ref = NewRef
     /\ NodeString(saved.parts[i].children[j].children[k])
          = NodeString(opened[i].children[j + 1].children[k + 1])

\* C9: when the saved buffer differs from the previous section in the text
\* of exactly one paragraph and in nothing else, updateSection returns a new
\* section in which only that paragraph, its scene and its part are new
\* objects; every other paragraph, scene and part is the original object.
C9_TargetedRebuild ==
  io = "saved" =>
    \A at \in StoredParagraphs : OnlyTextDiffers(at) => OnlyChainRebuilt(at)

\* A save after the text of the first paragraph of the first scene changed:
\* its sibling paragraph, the second scene and the second part are reused.
C9_Witness ==
  /\ io = "saved"
  /\ OnlyTextDiffers(<<1, 1, 1>>)
  /\ saved.parts[1].children[1].children[1].ref = NewRef
  /\ saved.parts[1].children[1].children[2] = stored.parts[1].children[1].children[2]
  /\ saved.parts[1].children[2] = stored.parts[1].children[2]
  /\ saved.parts[2] = stored.parts[2]

\* ------------------------------------------------------------------------
\* The fold guard
\* ------------------------------------------------------------------------

\* The folded parts and scenes that hold the point.
FoldedAncestors(root, pt) ==
  IF pt = NoSelection THEN {}
  ELSE {a \in ElementPathSet(root) :
          IsAncestor(a, pt.path) /\ NodeGet(root, a).folded = "true"}

GuardedKeys == {"insertText", "deleteBackward", "deleteForward"}

\* C10: insert-text, delete-backward and delete-forward call the primitive
\* they wrap, and the tree they hand to it is the tree they found but for
\* the folded flag of the nearest folded ancestor of the caret, which is
\* cleared; it is the tree they found when no ancestor is folded.
C10_FoldGuard ==
  last.key \in GuardedKeys =>
    /\ last.ran
    /\ LET folded == FoldedAncestors(last.before, last.at) IN
       IF folded = {} THEN last.entered = last.before
       ELSE \E a \in folded :
              /\ \A b \in folded : Len(b) <= Len(a)
              /\ last.entered =
                   ReplaceAt(last.before, a,
                             [NodeGet(last.before, a) EXCEPT !.folded = "false"])

\* A key pressed in a folded scene of a folded part: the primitive found the
\* scene unfolded and the part folded, and changed the tree.
C10_Witness ==
  /\ last.key \in GuardedKeys
  /\ Cardinality(FoldedAncestors(last.before, last.at)) = 2
  /\ Cardinality(FoldedAncestors(last.entered, last.at)) = 1
  /\ last.ran
  /\ err = ""
  /\ tree # last.entered

\* The nearest folded ancestor of the point in the tree, unfolded.
NearestUnfolded(root, pt) ==
  LET folded == FoldedAncestors(root, pt)
      a      == CHOOSE x \in folded : \A b \in folded : Len(b) <= Len(x)
  IN ReplaceAt(root, a, [NodeGet(root, a) EXCEPT !.folded = "false"])

\* C11: a line break pressed below a folded part or scene clears the folded
\* flag of the nearest folded ancestor and changes nothing else in the tree:
\* the break is not passed on.  With no folded ancestor the break is passed
\* on, with the tree as it was found.
C11_SwallowedBreak ==
  last.key = "insertBreak" =>
    IF FoldedAncestors(last.before, last.at) = {}
    THEN last.ran /\ last.entered = last.before
    ELSE ~last.ran /\ tree = NearestUnfolded(last.before, last.at)

\* A break pressed in the middle of the text of a folded scene: the scene is
\* unfolded and its paragraph is still in one piece.
C11_Witness ==
  /\ last.key = "insertBreak"
  /\ FoldedAncestors(last.before, last.at) # {}
  /\ last.at.offset = 1
  /\ NodeGet(last.before, last.at.path).text = "##"
  /\ tree = NearestUnfolded(last.before, last.at)
  /\ tree # last.before

\* ------------------------------------------------------------------------
\* The markup translator
\* ------------------------------------------------------------------------

\* The blocks of a tree in document order: type, id and text of each.
RECURSIVE BlocksOf(_)
RECURSIVE BlocksOfKids(_, _)
BlocksOfKids(kids, i) ==
  IF i > Len(kids) THEN <<>> ELSE BlocksOf(kids[i]) \o BlocksOfKids(kids, i + 1)

BlocksOf(n) ==
  IF IsText(n) THEN <<>>
  ELSE IF IsBlockOfText(n) THEN <<[type |-> n.type, id |-> n.id, text |-> NodeString(n)]>>
  ELSE BlocksOfKids(n.children, 1)

\* The block of a point, and the text of that block before and after it.
BlockOf(root, pt) == NodeGet(root, PathParent(pt.path))

TextBefore(root, pt) == StringBefore(BlockOf(root, pt), Last(pt.path), pt.offset)

TextAfter(root, pt) ==
  LET whole == NodeString(BlockOf(root, pt))
  IN SubSeq(whole, Len(TextBefore(root, pt)) + 1, Len(whole))

\* Text was inserted at a caret, and the text before the caret together with
\* the inserted text is (is not) one of the shortcuts.
TypedShortcut ==
  /\ last.key = "insertText"
  /\ last.at # NoSelection
  /\ TextBefore(last.entered, last.at) \o last.text \in DOMAIN SHORTCUTS

TypedText ==
  /\ last.key = "insertText"
  /\ last.at # NoSelection
  /\ TextBefore(last.entered, last.at) \o last.text \notin DOMAIN SHORTCUTS

\* C12: when the text before the caret and the inserted text make a
\* shortcut, the block of the caret takes the type of the shortcut and is
\* left with the text it had after the caret: the text before the caret is
\* deleted and the inserted text is not inserted.
C12_Shortcut ==
  TypedShortcut =>
    \E i \in 1..Len(BlocksOf(tree)) :
      BlocksOf(tree)[i] =
        [type |-> SHORTCUTS[TextBefore(last.entered, last.at) \o last.text],
         id   |-> BlockOf(last.entered, last.at).id,
         text |-> TextAfter(last.entered, last.at)]

\* The blocks of the tree the primitive was given, the inserted text put at
\* the caret.
BlocksWithText ==
  LET old == BlocksOf(last.entered)
      b   == BlockOf(last.entered, last.at)
  IN [i \in 1..Len(old) |->
        IF old[i].id = b.id
        THEN [old[i] EXCEPT !.text = TextBefore(last.entered, last.at) \o last.text
                                      \o TextAfter(last.entered, last.at)]
        ELSE old[i]]

\* C13: when the text before the caret and the inserted text make no
\* shortcut, the text is inserted at the caret: the blocks are those that
\* were there, of the same types, and the text of the block of the caret has
\* the inserted text at the caret and loses nothing.
C13_PlainText ==
  TypedText => BlocksOf(tree) = BlocksWithText

\* A blank typed after "#" in a paragraph that holds "##": no shortcut, the
\* paragraph holds "# #".
C13_Witness ==
  /\ TypedText
  /\ last.text = " "
  /\ TextBefore(last.entered, last.at) = "#"
  /\ TextAfter(last.entered, last.at) = "#"
  /\ \E i \in 1..Len(BlocksOf(tree)) :
        BlocksOf(tree)[i].type = "p" /\ BlocksOf(tree)[i].text = "# #"

\* A line break reached the markup translator with a caret.
Broke == last.key = "insertBreak" /\ last.ran /\ last.at # NoSelection

\* The block of the caret is one that a line break resets.
ResetsOnBreak ==
  /\ BlockOf(last.entered, last.at).type \in RESETEMPTY
  /\ NodeString(BlockOf(last.entered, last.at)) = ""

\* The place of the block of the caret among the blocks.
CaretBlock ==
  CHOOSE i \in 1..Len(BlocksOf(last.entered)) :
    BlocksOf(last.entered)[i].id = BlockOf(last.entered, last.at).id

\* The blocks are those the primitive was given, but for the block of the
\* caret, which is split at the caret: its first half keeps the type, the
\* id and the text before the caret, its second half has the text after the
\* caret and the type given.
SplitInto(type) ==
  LET old == BlocksOf(last.entered)
      new == BlocksOf(tree)
      i   == CaretBlock
  IN /\ Len(new) = Len(old) + 1
     /\ \A j \in 1..(i - 1) : new[j] = old[j]
     /\ new[i] = [old[i] EXCEPT !.text = TextBefore(last.entered, last.at)]
     /\ new[i + 1].type = type
     /\ new[i + 1].text = TextAfter(last.entered, last.at)
     /\ \A j \in (i + 1)..Len(old) : new[j + 1] = old[j]

\* The blocks are those the primitive was given, but for the type of the
\* block of the caret, which is p.
RetypedToP ==
  LET old == BlocksOf(last.entered)
  IN BlocksOf(tree) =
       [j \in 1..Len(old) |-> IF j = CaretBlock THEN [old[j] EXCEPT !.type = "p"] ELSE old[j]]

C15_ResetEmpty ==
  (Broke /\ ResetsOnBreak) => RetypedToP

\* A break in an empty synopsis: as many blocks as before, the synopsis a p.
C15_Witness ==
  /\ Broke
  /\ ResetsOnBreak
  /\ BlockOf(last.entered, last.at).type = "synopsis"
  /\ Len(BlocksOf(tree)) = Len(BlocksOf(last.entered))
  /\ BlocksOf(tree)[CaretBlock].type = "p"

\* Backspace reached the markup translator with a caret.
Backspaced == last.key = "deleteBackward" /\ last.at # NoSelection

StyledTypes == {"missing", "comment", "synopsis", "hpart", "hscene"}

AtStartOfStyled ==
  /\ TextBefore(last.entered, last.at) = ""
  /\ BlockOf(last.entered, last.at).type \in StyledTypes

PlainBackspace ==
  coreDeleteBackward(EditorState(last.entered, <<>>, "", last.at)).tree

\* The headers that the normaliser makes again: the first block of the
\* document (the root rule) and the first block of the first scene of a part
\* (checkFirstHeader).
RestoredHeader ==
  LET path == PathParent(last.at.path)
  IN \/ path = <<1, 1>>
     \/ Len(path) = 3 /\ path[2] = 2 /\ path[3] = 1

RECURSIVE Anonymous(_)
Anonymous(n) ==
  IF IsText(n) THEN n
  ELSE [n EXCEPT !.id = 0,
                 !.children = [i \in 1..Len(n.children) |-> Anonymous(n.children[i])]]

\* One part "Old" of its header and of the scene "Old", which holds its
\* header and the paragraph "hi".
BareSceneInPart ==
  EditorNode(<<
    Elem("part", 0, "Old", Undefined,
         <<Block("hpart", 0, "Old"),
           Elem("scene", 0, "Old", Undefined,
                <<Block("hscene", 0, "Old"), Block("p", 0, "hi")>>)>>) >>)

\* C17: the normalisation of the scene [hscene "Old", p "hi"] that has no
\* part around it ends in one part "Old" that holds the header "Old" and the
\* scene "Old", with its header and its paragraph.
C17_BareScene ==
  (Stable /\ round = 1) => Anonymous(tree) = BareSceneInPart

\* ------------------------------------------------------------------------
\* What updateSection reuses and what it makes anew
\* ------------------------------------------------------------------------

\* The object of the stored section that ref names.
StoredAt(ref) ==
  IF ref = <<>> THEN stored
  ELSE IF Len(ref) = 1 THEN stored.parts[ref[1]]
  ELSE IF Len(ref) = 2 THEN stored.parts[ref[1]].children[ref[2]]
  ELSE stored.parts[ref[1]].children[ref[2]].children[ref[3]]

\* A save leaves the buffer and the section it was given as they were.
SaveReadsOnly ==
  (io = "open" /\ io' = "saved") => (opened' = opened /\ stored' = stored)

\* C18: updateSection changes neither the buffer nor the section nor an
\* object of them: the section and the buffer are after the save what they
\* were before it, and every object of the result that is an object of the
\* section is that object as the section holds it; whatever differs is a new
\* object.
C18_Purity ==
  /\ [][SaveReadsOnly]_vars
  /\ [](io = "saved" =>
          /\ saved.ref # NewRef => saved = stored
          /\ \A i \in 1..Len(section2lookup(saved)) :
               LET n == section2lookup(saved)[i]
               IN n.ref # NewRef => n = StoredAt(n.ref))

\* A save after an edit in the first part: the section and the first part
\* are new objects, the second part is the object of the section.
C18_Witness ==
  /\ io = "saved"
  /\ edits > 0
  /\ saved.ref = NewRef
  /\ Len(saved.parts) = 2
  /\ saved.parts[1].ref = NewRef
  /\ saved.parts[2] = stored.parts[2]

\* The part or the scene that the part or the scene at a place of the
\* buffer becomes, and the objects that its children become.
Converted(at) ==
  IF Len(at) = 1 THEN edit2part(BufferGet(opened, at), section2lookup(stored))
  ELSE edit2scene(BufferGet(opened, at), section2lookup(stored))

ConvertedChildren(at) ==
  LET kids == Rest(BufferGet(opened, at).children)
  IN [x \in 1..Len(kids) |->
        IF Len(at) = 1 THEN edit2scene(kids[x], section2lookup(stored))
        ELSE edit2paragraph(kids[x], section2lookup(stored))]

C20_ParagraphReuse ==
  io = "saved" =>
    \A at \in ParagraphPlaces(opened) :
      LET elem == BufferGet(opened, at)
          orig == LookupGet(section2lookup(stored), elem.id)
          res  == edit2paragraph(elem, section2lookup(stored))
      IN LookupHas(section2lookup(stored), elem.id) =>
           IF elem.type = orig.type /\ NodeString(elem) = NodeString(orig)
           THEN res = orig
           ELSE /\ res.ref = NewRef
                /\ res.type = elem.type
                /\ NodeString(res) = NodeString(elem)
                /\ res.words = wcElem(elem)

\* ------------------------------------------------------------------------
\* The headers of the buffer stay out of the section
\* ------------------------------------------------------------------------

\* The buffer is well formed: a part is its hpart followed by scenes, a
\* scene is its hscene followed by blocks that are no headers.
BufferWellFormed ==
  /\ \A at \in PartPlaces(opened) :
       /\ BufferGet(opened, at).type = "part"
       /\ BufferGet(opened, at).children # <<>>
       /\ BufferGet(opened, at).children[1].type = "hpart"
  /\ \A at \in ScenePlaces(opened) :
       /\ BufferGet(opened, at).type = "scene"
       /\ BufferGet(opened, at).children # <<>>
       /\ BufferGet(opened, at).children[1].type = "hscene"
  /\ \A at \in ParagraphPlaces(opened) :
       BufferGet(opened, at).type \in ParagraphTypes

\* C21: the section that updateSection returns for a well-formed buffer
\* holds no hpart and no hscene; part i of it holds, in order, what the
\* scenes of part i of the buffer become, and each of its scenes holds, in
\* order, what the blocks after the header of that scene become: only the
\* first child of a part and of a scene is left out.
C21_HeaderStripping ==
  (io = "saved" /\ BufferWellFormed) =>
    /\ \A i \in 1..Len(section2lookup(saved)) :
         section2lookup(saved)[i].type \notin {"hpart", "hscene"}
    /\ Len(saved.parts) = Len(opened)
    /\ \A at \in PartPlaces(opened) :
         LET part == saved.parts[at[1]] IN
         /\ part.type = "part"
         /\ part.id = BufferGet(opened, at).id
         /\ Len(part.children) = Len(BufferGet(opened, at).children) - 1
    /\ \A at \in ScenePlaces(opened) :
         LET scene == saved.parts[at[1]].children[at[2] - 1] IN
         /\ scene.type = "scene"
         /\ scene.id = BufferGet(opened, at).id
         /\ Len(scene.children) = Len(BufferGet(opened, at).children) - 1
    /\ \A at \in ParagraphPlaces(opened) :
         saved.parts[at[1]].children[at[2] - 1].children[at[3] - 1]
           = checkClean(BufferGet(opened, at), section2lookup(stored))

\* A save after a paragraph was put into the first scene: the scene of the
\* section holds three paragraphs where the scene of the buffer holds its
\* header and three blocks.
C21_Witness ==
  /\ io = "saved"
  /\ BufferWellFormed
  /\ saved.ref = NewRef
  /\ Len(opened) = 2
  /\ Len(opened[1].children) = 3
  /\ Len(opened[1].children[2].children) = 4
  /\ Len(saved.parts[1].children[1].children) = 3
  /\ \E k \in 1..3 : saved.parts[1].children[1].children[k].id = 20

\* ------------------------------------------------------------------------
\* What the scan of withIDs touches
\* ------------------------------------------------------------------------

\* The tree after the scan of withIDs over the tree as it is.
Scanned == IdLoop(Now, ElementPaths(tree), 1, {}).tree

\* The ids of the elements of a tree in document order.
IdList(root) ==
  LET blocks == ElementPaths(root)
  IN [k \in 1..Len(blocks) |-> NodeGet(root, blocks[k]).id]

\* The k-th id of a list is an id, and none before it is the same.
KeepsId(ids, k) == ids[k] # 0 /\ \A j \in 1..(k - 1) : ids[j] # ids[k]

\* C22: the scan that withIDs makes when the root is the path normalised
\* next changes ids and nothing else: but for the ids
\* the tree after it is the tree before it; an element with an id that no
\* element before it in document order has keeps it, every other element
\* gets an id that is no id of the tree.  The scan is made for the root path
\* only: for the path that is normalised next, when it is not the root,
\* withIDs does what withFixNesting does.
C22_IdFrame ==
  /\ RootIsNext =>
       LET scanned == Scanned
           before  == IdList(tree)
           after   == IdList(scanned)
           used    == IdsOf(tree)
       IN /\ Anonymous(scanned) = Anonymous(tree)
          /\ \A k \in 1..Len(before) :
               IF KeepsId(before, k) THEN after[k] = before[k]
               ELSE after[k] # 0 /\ after[k] \notin used
  /\ (mode = "normalizing" /\ err = "" /\ dirty # <<>> /\ Last(dirty) # <<>>
        /\ NodeHas(tree, Last(dirty))) =>
       NormalizeNode(Now, Last(dirty)) = FixNesting(Now, Last(dirty))

\* The scan is about to run over a tree in which two elements have the same
\* id and one has none: the first of the two keeps the id.
C22_Witness ==
  /\ RootIsNext
  /\ LET before == IdList(tree)
         after  == IdList(Scanned)
     IN /\ \E k \in 1..Len(before) : before[k] = 0
        /\ \E k \in 1..Len(before) : \E j \in 1..(k - 1) :
             /\ KeepsId(before, j)
             /\ before[j] = before[k]
             /\ after[j] = before[j]
             /\ after[k] # before[k]
        /\ \A k \in 1..Len(after) : KeepsId(after, k)

\* ------------------------------------------------------------------------
\* A container without its header, next to a container of its type
\* ------------------------------------------------------------------------

\* The header type of a container type.
HeaderOf(type) == IF type = "part" THEN "hpart" ELSE "hscene"

\* The path normalised next is a part below the root or a scene below a
\* part of the root, whose first child is not its header and whose sibling
\* just before it is a container of its type.
MismatchNext ==
  /\ mode = "normalizing"
  /\ err = ""
  /\ dirty # <<>>
  /\ m <= max
  /\ LET path == Last(dirty) IN
     /\ path # <<>>
     /\ NodeHas(tree, path)
     /\ LET block == NodeGet(tree, path) IN
        /\ \/ block.type = "part" /\ Len(path) = 1
           \/ block.type = "scene" /\ Len(path) = 2
        /\ block.children # <<>>
        /\ block.children[1].type # HeaderOf(block.type)
        /\ Last(path) > 1
        /\ NodeGet(tree, PathPrevious(path)).type = block.type

\* The tree in which the container at a path has gone into the sibling
\* before it, which is not folded.
MergedIntoPrevious(root, path) ==
  LET block == NodeGet(root, path)
      prev  == NodeGet(root, PathPrevious(path))
      kids  == NodeGet(root, PathParent(path)).children
      both  == [prev EXCEPT !.folded = IF @ = "true" THEN "false" ELSE @,
                            !.children = prev.children \o block.children]
  IN SetChildren(root, PathParent(path),
                 SpliceOut([kids EXCEPT ![Last(path) - 1] = both], Last(path)))

\* C23: the normalisation of a part or a scene at its depth whose first
\* child is not its header and whose sibling just before it is a container
\* of its type leaves one container in the place of the two: it has the id
\* and the name of the sibling, is not folded, and holds the children of the
\* sibling followed by the children of the container; nothing else changes.
C23_MismatchMerge ==
  MismatchNext =>
    LET es == NormalizeIteration(Now) IN
    /\ es.err = ""
    /\ es.tree = MergedIntoPrevious(tree, Last(dirty))

\* A folded part that has lost its header is about to go into the part
\* before it.
C23_Witness ==
  /\ MismatchNext
  /\ NodeGet(tree, Last(dirty)).type = "part"
  /\ NodeGet(tree, Last(dirty)).folded = "true"
  /\ LET after == NormalizeIteration(Now).tree IN
     /\ Len(after.children) = Len(tree.children) - 1
     /\ NodeGet(after, PathPrevious(Last(dirty))).folded # "true"
     /\ NodeGet(after, PathPrevious(Last(dirty))).id = NodeGet(tree, PathPrevious(Last(dirty))).id

\* ------------------------------------------------------------------------
\* A header in the middle of its container
\* ------------------------------------------------------------------------

\* One edit was made to the valid document and normalisation has not begun.
OneEdit == mode = "idle" /\ err = "" /\ edits = 1 /\ round = 0

\* The blocks of a scene of the document that are hscene and not first.
LateSceneHeaders ==
  {p \in BlockPathSet(tree) :
     Len(p) = 3 /\ Last(p) > 1 /\ NodeGet(tree, p).type = "hscene"}

\* The hpart blocks that are children of a part of the document and not
\* first.
LatePartHeaders ==
  {p \in BlockPathSet(tree) :
     Len(p) = 2 /\ Last(p) > 1 /\ NodeGet(tree, p).type = "hpart"}

\* The tree in which the container of the header at p ends before p and a
\* container with the given id follows it, which holds the header and what
\* came after it and has the text of the header as name.
SplitAt(root, p, id) ==
  LET at     == PathParent(p)
      box    == NodeGet(root, at)
      k      == Last(p)
      first  == [box EXCEPT !.children = SubSeq(box.children, 1, k - 1)]
      second == Elem(box.type, id, NodeString(box.children[k]), Undefined,
                     SubSeq(box.children, k, Len(box.children)))
      kids   == NodeGet(root, PathParent(at)).children
  IN SetChildren(root, PathParent(at),
       SubSeq(kids, 1, Last(at) - 1) \o <<first, second>>
         \o SubSeq(kids, Last(at) + 1, Len(kids)))

\* Normalisation took the container of the header at p apart at p.
SplitDone(p) ==
  LET es == Normalize(Now) IN
  /\ es.err = ""
  /\ NodeHas(es.tree, PathNext(PathParent(p)))
  /\ es.tree = SplitAt(tree, p, NodeGet(es.tree, PathNext(PathParent(p))).id)

\* C24: after a block that is not the first of its scene has become hscene,
\* normalisation ends with that scene in two: the scene keeps its id and
\* the children before the block, and a scene follows that holds the block
\* and, in order, the children that came after it, and has the text of the
\* block as name; likewise for a part and an hpart that is not its first
\* child.
C24_HeaderSplit ==
  OneEdit =>
    \A p \in LateSceneHeaders \cup LatePartHeaders : SplitDone(p)

\* The second of the three paragraphs of the first scene has become hscene:
\* the scene ends after its first paragraph and the scene "y" that follows
\* holds the header and the third paragraph.
C24_Witness ==
  /\ OneEdit
  /\ <<1, 2, 3>> \in LateSceneHeaders
  /\ SplitDone(<<1, 2, 3>>)
  /\ LET after == Normalize(Now).tree IN
     /\ Len(NodeGet(after, <<1, 2>>).children) = 2
     /\ NodeGet(after, <<1, 2>>).id = NodeGet(tree, <<1, 2>>).id
     /\ NodeGet(after, <<1, 3>>).name = "y"
     /\ Len(NodeGet(after, <<1, 3>>).children) = 2
     /\ NodeString(NodeGet(after, <<1, 3, 2>>)) = "z"

\* ------------------------------------------------------------------------
\* A container without its header and without a container of its type
\* before it
\* ------------------------------------------------------------------------

\* The container at a path does not begin with its header.
Headless(root, p) ==
  LET box == NodeGet(root, p) IN
  /\ box.type \in {"part", "scene"}
  /\ box.children # <<>>
  /\ box.children[1].type # HeaderOf(box.type)

\* The container at a path has no sibling of its type just before it.
NoneToMergeWith(root, p) ==
  \/ Last(p) = 1
  \/ NodeGet(root, PathPrevious(p)).type # NodeGet(root, p).type

\* The part rule is next for a part below the root that begins with its
\* header and whose second child is a scene that does not begin with an
\* hscene.
PartRuleNext ==
  /\ mode = "normalizing" /\ err = "" /\ dirty # <<>> /\ m <= max
  /\ Len(Last(dirty)) = 1
  /\ NodeHas(tree, Last(dirty) \o <<2, 1>>)
  /\ NodeGet(tree, Last(dirty)).type = "part"
  /\ NodeGet(tree, Last(dirty) \o <<1>>).type = "hpart"
  /\ NodeGet(tree, Last(dirty) \o <<2>>).type = "scene"
  /\ Headless(tree, Last(dirty) \o <<2>>)

\* The root rule is next and the node at [0,0] is no hpart.
RootRuleNext ==
  /\ RootIsNext /\ m <= max
  /\ NodeHas(tree, <<1, 1>>)
  /\ NodeGet(tree, <<1, 1>>).type # "hpart"

Retyped(root, p, type) == ReplaceAt(root, p, [NodeGet(root, p) EXCEPT !.type = type])

\* C25: a container that does not begin with its header and has no
\* container of its type just before it does not stay so: the part rule
\* makes the first child of the scene that is the second child of a part an
\* hscene, the root rule leaves an hpart at [0,0], and at a fixed
\* point no part and no scene is without its header unless a container of
\* its type is just before it.
C25_DeferredResolved ==
  /\ PartRuleNext =>
       NormalizeIteration(Now).tree = Retyped(tree, Last(dirty) \o <<2, 1>>, "hscene")
  /\ RootRuleNext =>
       LET es == NormalizeIteration(Now) IN
       /\ es.err = ""
       /\ NodeGet(es.tree, <<1, 1>>).type = "hpart"
  /\ Stable =>
       \A p \in NodesOfType(tree, "part") \cup NodesOfType(tree, "scene") :
         ~(Headless(tree, p) /\ NoneToMergeWith(tree, p))

\* The rule for a part or a scene at its depth is next for a container
\* that has an id, does not begin with its header and has no container of
\* its type just before it: checkBlockHeader lets it pass.
DeferredNext ==
  /\ mode = "normalizing" /\ err = "" /\ dirty # <<>> /\ m <= max
  /\ Last(dirty) # <<>>
  /\ NodeHas(tree, Last(dirty))
  /\ LET box == NodeGet(tree, Last(dirty)) IN
     /\ box.id # 0
     /\ \/ box.type = "part" /\ Len(Last(dirty)) = 1
        \/ box.type = "scene" /\ Len(Last(dirty)) = 2
  /\ Headless(tree, Last(dirty))
  /\ NoneToMergeWith(tree, Last(dirty))

\* A part or a scene of a tree with an id does not begin with its header.
HeadlessWithId(root, id) ==
  \E p \in NodesOfType(root, "part") \cup NodesOfType(root, "scene") :
    NodeGet(root, p).id = id /\ Headless(root, p)

\* C25, as a whole: a container that checkBlockHeader lets pass without its
\* header, for want of a container of its type before it, has its header
\* when the normalisation under way ends without error.
C25_NoneLeftHeadless ==
  DeferredNext =>
    LET es == NormalizeLoop(Now, m, max) IN
    es.err = "" => ~HeadlessWithId(es.tree, NodeGet(tree, Last(dirty)).id)

\* ------------------------------------------------------------------------
\* The text of the document across normalisation
\* ------------------------------------------------------------------------

\* The texts of the blocks of a tree in document order.
TextsOf(root) ==
  LET blocks == BlocksOf(root) IN [i \in 1..Len(blocks) |-> blocks[i].text]

\* Normalisation is about to begin.
Unnormalized == mode = "idle" /\ err = "" /\ dirty # <<>>

\* C26: normalisation loses, doubles and reorders no text: the texts of the
\* blocks in document order at the fixed point are those before the
\* normalisation.
C26_TextsKept ==
  Unnormalized =>
    LET es == Normalize(Now) IN
    es.err = "" => TextsOf(es.tree) = TextsOf(tree)

\* A normalisation that changes the number of scenes and the type of a
\* block of a document of more than four blocks, and keeps their texts.
C26_Witness ==
  /\ Unnormalized
  /\ Len(TextsOf(tree)) > 4
  /\ LET es == Normalize(Now) IN
     /\ es.err = ""
     /\ Cardinality(NodesOfType(es.tree, "scene")) # Cardinality(NodesOfType(tree, "scene"))
     /\ \E i \in 1..Len(BlocksOf(tree)) : BlocksOf(es.tree)[i].type # BlocksOf(tree)[i].type
     /\ TextsOf(es.tree) = TextsOf(tree)

\* ------------------------------------------------------------------------
\* No edit below a fold
\* ------------------------------------------------------------------------

\* C27: when insert-text, delete-backward or delete-forward hand the tree
\* to the primitive they wrap, no part and no scene that holds the caret is
\* folded in it.
C27_NoHiddenEdit ==
  (last.key \in GuardedKeys /\ last.ran) =>
    FoldedAncestors(last.entered, last.at) = {}

\* ------------------------------------------------------------------------
\* The buffer of an opened section, as the editor's tree
\* ------------------------------------------------------------------------

\* The buffer as the editor holds it: the same nodes, read by their type,
\* id, name, folded, text and children.
RECURSIVE EditableNode(_)
EditableNode(n) ==
  IF IsText(n) THEN TextNode(n.text)
  ELSE Elem(n.type, n.id, n.name, n.folded,
            [i \in 1..Len(n.children) |-> EditableNode(n.children[i])])

OpenedTree ==
  EditorNode([i \in 1..Len(opened) |-> EditableNode(opened[i])])

\* Editor.normalize(editor, {force: true}): every path of the tree is dirty.
NormalizeOpened(root) ==
  Normalize(EditorState(root, NodePaths(root), "", NoSelection))

\* The tree as the buffer again.  The substrate never changes an object: a
\* node the normalisation left as it was is the object of the buffer at its
\* place, every other node is a new object.
RECURSIVE Rebuffered(_, _)
Rebuffered(n, old) ==
  IF IsText(n) THEN TextNode(n.text)
  ELSE IF n = EditableNode(old) THEN old
  ELSE Doc(NewRef, Undefined,
           Elem(n.type, n.id, n.name, n.folded,
                [i \in 1..Len(n.children) |->
                   Rebuffered(n.children[i],
                              IF i <= Len(old.children) THEN old.children[i]
                              ELSE TextNode(""))]))

NormalizedBuffer(root) ==
  [i \in 1..Len(root.children) |->
     Rebuffered(root.children[i],
                IF i <= Len(opened) THEN opened[i] ELSE TextNode(""))]

OpenedValid(root) ==
  /\ DepthOK(root)
  /\ UniqueIds(root)
  /\ \A p \in ElementPathSet(root) :
       LET n == NodeGet(root, p) IN
       /\ n.type = "part"  => PartShape(n) /\ NameInSync(n, "hpart")
       /\ n.type = "scene" => SceneShape(n) /\ NameInSync(n, "hscene")

JustOpened == io = "open" /\ edits = 0

\* The parts and scenes of the stored section all have a name.
AllNamed ==
  \A i \in 1..Len(stored.parts) :
    /\ stored.parts[i].name # Undefined
    /\ \A j \in 1..Len(stored.parts[i].children) :
         stored.parts[i].children[j].name # Undefined

\* No paragraph of the stored section is a line break.
NoBreaks ==
  \A i \in 1..Len(stored.parts) :
    \A j \in 1..Len(stored.parts[i].children) :
      \A k \in 1..Len(stored.parts[i].children[j].children) :
        stored.parts[i].children[j].children[k].type # "br"

\* Every paragraph of the stored section has one text leaf: no two leaves
\* that the substrate would merge.
SingleLeaves ==
  \A i \in 1..Len(stored.parts) :
    \A j \in 1..Len(stored.parts[i].children) :
      \A k \in 1..Len(stored.parts[i].children[j].children) :
        Len(stored.parts[i].children[j].children[k].children) = 1

\* C28: the tree section2edit makes of a stored section has the shape of
\* parts and scenes, names in sync with the headers, the depths and unique
\* ids; normalising it changes nothing, and updateSection on it returns the
\* stored section, whether or not its parts and scenes have a name.
C28_OpenedValid ==
  JustOpened =>
    LET root == OpenedTree
        es   == NormalizeOpened(root)
    IN /\ OpenedValid(root)
       /\ es.err = ""
       /\ es.tree = root
       /\ Same(updateSection(NormalizedBuffer(es.tree), stored), stored)

\* The same for the sections where every part and scene has a name, no
\* paragraph is a line break and every paragraph has one text leaf.
C28_NamedOpenedValid ==
  (JustOpened /\ AllNamed /\ NoBreaks /\ SingleLeaves) =>
    LET root == OpenedTree
        es   == NormalizeOpened(root)
    IN /\ OpenedValid(root)
       /\ es.err = ""
       /\ es.tree = root
       /\ Same(updateSection(NormalizedBuffer(es.tree), stored), stored)

\* The same for the sections without a line break and with one text leaf
\* in every paragraph, named or not.
C28_UnbrokenOpenedValid ==
  (JustOpened /\ NoBreaks /\ SingleLeaves) =>
    LET root == OpenedTree
        es   == NormalizeOpened(root)
    IN /\ OpenedValid(root)
       /\ es.err = ""
       /\ es.tree = root
       /\ Same(updateSection(NormalizedBuffer(es.tree), stored), stored)

====
